---- MODULE Spec2Model ----
(***************************************************************************)
(* Model of the niblet backend's calorie/macro recommender, the handler    *)
(* calculateCalories of controllers/goals.controller.js, together with     *)
(* the error path it takes through asyncHandler and errorHandler, and of  *)
(* the meal-text estimator analyzeTextForCalories of                       *)
(* utils/nutritionAnalysis.js.  A string is the sequence of its characters.*)
(*                                                                         *)
(* JavaScript values are tagged records [t, n, d]:                         *)
(*   t = "num"        the number n/d (d > 0, lowest terms)                 *)
(*   t = "nan"        the number NaN                                       *)
(*   t = "undefined"  a field that the request body does not carry         *)
(*   t = "str"        a non-empty string that is not a numeric literal     *)
(*   t = "date"       a date string that parses to the instant n, in ms    *)
(*                    after an arbitrary reference instant                 *)
(*   t = "null"       JSON null                                            *)
(* Numbers are exact rationals: the model does not carry the rounding      *)
(* error of IEEE doubles.                                                  *)
(***************************************************************************)
EXTENDS Integers, Sequences, FiniteSets, TLC

VARIABLES pc, req, today, locals, res, mealText, apiKey, est, estPath, memo,
          handler, hreq, hres, analyzed, docs, profile,
          inflight, gate, account

\* The state of the two calculators and of their callers' memory.
calcVars == <<pc, req, today, locals, res, mealText, est, estPath, memo>>

\* The state of the document handlers: the request in hand, its answer, the
\* texts handed to the estimator, the collections and the users' profiles.
storeVars == <<handler, hreq, hres, analyzed, docs, profile>>

\* The requests that are between two awaits, the request at the door of
\* protect, and the user document that is being saved.
sessionVars == <<inflight, gate, account>>

vars == <<calcVars, apiKey, storeVars, sessionVars>>

----------------------------------------------------------------------------
(* JavaScript values and arithmetic *)

RECURSIVE GCD(_, _)
GCD(a, b) == IF b = 0 THEN a ELSE GCD(b, a % b)

Abs(x) == IF x < 0 THEN -x ELSE x

Num(n, d) ==
  LET g == GCD(Abs(n), d)
  IN  [t |-> "num", n |-> n \div g, d |-> d \div g]

IntNum(n) == [t |-> "num", n |-> n, d |-> 1]

NaN == [t |-> "nan", n |-> 0, d |-> 1]

Undefined == [t |-> "undefined", n |-> 0, d |-> 1]

Null == [t |-> "null", n |-> 0, d |-> 1]

NonNumericString == [t |-> "str", n |-> 0, d |-> 1]

DateString(ms) == [t |-> "date", n |-> ms, d |-> 1]

IsNum(v) == v.t = "num"

\* ToBoolean: undefined, null, NaN and 0 are falsy; non-empty strings are truthy.
Truthy(v) ==
  CASE v.t = "num" -> v.n # 0
    [] v.t \in {"str", "date"} -> TRUE
    [] OTHER -> FALSE

\* ToNumber, as the arithmetic operators apply it to their operands.
ToNumber(v) == IF v.t = "num" THEN v ELSE NaN

Add(x, y) ==
  LET a == ToNumber(x)
      b == ToNumber(y)
  IN  IF a.t = "nan" \/ b.t = "nan" THEN NaN
      ELSE Num(a.n * b.d + b.n * a.d, a.d * b.d)

Sub(x, y) ==
  LET a == ToNumber(x)
      b == ToNumber(y)
  IN  IF a.t = "nan" \/ b.t = "nan" THEN NaN
      ELSE Num(a.n * b.d - b.n * a.d, a.d * b.d)

Mul(x, y) ==
  LET a == ToNumber(x)
      b == ToNumber(y)
  IN  IF a.t = "nan" \/ b.t = "nan" THEN NaN
      ELSE Num(a.n * b.n, a.d * b.d)

\* The handler divides by the literals 7, 4, 9, 86400000 and by daysUntilTarget,
\* which is NaN or at least 1: the divisor is never zero.
Div(x, y) ==
  LET a == ToNumber(x)
      b == ToNumber(y)
  IN  IF a.t = "nan" \/ b.t = "nan" THEN NaN
      ELSE IF b.n < 0 THEN Num(-(a.n * b.d), a.d * (-b.n))
      ELSE Num(a.n * b.d, a.d * b.n)

Less(a, b) == a.n * b.d < b.n * a.d

\* Math.round: the nearest integer, a tie going towards +Infinity; NaN stays NaN.
MathRound(x) ==
  IF x.t = "nan" THEN NaN
  ELSE IntNum((2 * x.n + x.d) \div (2 * x.d))

\* Math.max: NaN if either argument is NaN.
MathMax(x, y) ==
  IF x.t = "nan" \/ y.t = "nan" THEN NaN
  ELSE IF Less(x, y) THEN y ELSE x

\* new Date(s) - 0: the instant of a date string, NaN for an invalid date.
NewDate(v) == IF v.t = "date" THEN IntNum(v.n) ELSE NaN

\* JSON.stringify writes NaN as null.
ToJSON(v) == IF v.t = "nan" THEN Null ELSE v

----------------------------------------------------------------------------
(* The request body and the inputs the model draws *)

\* A string field (gender, activityLevel) that the body does not carry.
Absent == "<absent>"

MaxWeightK == 2

MaxHeightK == 1

MaxAgeK == 1

MaxTargetK == 2

\* Pounds: -90, 0, 90, 180.
Weights == {IntNum(90 * k) : k \in -1 .. MaxWeightK}

\* Inches: 0, 70.
Heights == {IntNum(70 * k) : k \in 0 .. MaxHeightK}

\* Years: 0, 30.
Ages == {IntNum(30 * k) : k \in 0 .. MaxAgeK}

Genders == {Absent, "male", "female", "other", "prefer-not-to-say"}

ActivityLevels ==
  {Absent, "sedentary", "light", "moderate", "active", "very-active", "extreme"}

\* Pounds per week; -1/1000 makes the daily adjustment -0.5 kcal, a rounding tie.
WeeklyWeightChanges == {IntNum(-1), Num(-1, 1000), IntNum(0), IntNum(1)}

GoalWeights == {IntNum(179)}

\* Target dates 36 hours apart, from 36 hours before the reference instant on.
TargetDates == {DateString(k * (36 * 60 * 60 * 1000)) : k \in -1 .. MaxTargetK}

Bodies ==
  [currentWeight : Weights \cup {Undefined, NonNumericString},
   height : Heights \cup {Undefined},
   age : Ages \cup {Undefined},
   gender : Genders,
   activityLevel : ActivityLevels,
   weeklyWeightChange : WeeklyWeightChanges \cup {Undefined, NonNumericString},
   goalWeight : GoalWeights \cup {Undefined},
   targetDate : TargetDates \cup {Undefined, NonNumericString}]

\* new Date() is read at the reference instant.
Clock == {IntNum(0)}

----------------------------------------------------------------------------
(* calculateCalories *)

ErrorResponse(message, statusCode) ==
  [message |-> message, statusCode |-> statusCode]

NoData ==
  [bmr |-> Undefined, maintenanceCalories |-> Undefined,
   recommendedCalories |-> Undefined,
   protein |-> Undefined, fat |-> Undefined, carbs |-> Undefined]

NoLocals ==
  [bmr |-> Undefined, maintenanceCalories |-> Undefined,
   daysUntilTarget |-> Undefined, adjustedCalories |-> Undefined,
   recommendedCalories |-> Undefined]

\* errorHandler: an ErrorResponse is none of CastError, duplicate key,
\* ValidationError or a JWT error, and is answered with its own status code.
errorHandler(err) ==
  [status |-> IF err.statusCode # 0 THEN err.statusCode ELSE 500,
   success |-> FALSE,
   error |-> IF err.message # "" THEN err.message ELSE "Server Error",
   data |-> NoData]

\* if (!currentWeight || !height || !age || !gender || !activityLevel)
missingRequired(body) ==
  \/ ~Truthy(body.currentWeight)
  \/ ~Truthy(body.height)
  \/ ~Truthy(body.age)
  \/ body.gender = Absent
  \/ body.activityLevel = Absent

\* bmrOf with the gender branch lost: + 5 for every gender.
bmrOfOneBranch(body) ==
  Add(Sub(Add(Mul(IntNum(10), body.currentWeight),
              Mul(Num(625, 100), body.height)),
          Mul(IntNum(5), body.age)),
      IntNum(5))

\* Mifflin-St Jeor, on the body's values as they are.
bmrOf(body) ==
  LET base == Sub(Add(Mul(IntNum(10), body.currentWeight),
                      Mul(Num(625, 100), body.height)),
                  Mul(IntNum(5), body.age))
  IN  IF body.gender = "male"
      THEN Add(base, IntNum(5))
      ELSE Sub(base, IntNum(161))

\* activityMultipliers[activityLevel]: undefined for a key the table lacks.
activityMultipliers(level) ==
  CASE level = "sedentary" -> Num(12, 10)
    [] level = "light" -> Num(1375, 1000)
    [] level = "moderate" -> Num(155, 100)
    [] level = "active" -> Num(1725, 1000)
    [] level = "very-active" -> Num(19, 10)
    [] OTHER -> Undefined

maintenanceCaloriesOf(body) ==
  MathRound(Mul(bmrOf(body), activityMultipliers(body.activityLevel)))

\* daysUntilTargetOf with a factor 60 lost from the milliseconds of a day.
daysUntilTargetOfShortDay(body, now) ==
  MathMax(IntNum(1),
          MathRound(Div(Sub(NewDate(body.targetDate), now),
                        IntNum(1000 * 60 * 24))))

\* Math.max(1, Math.round((targetDateObj - today) / (1000 * 60 * 60 * 24)))
daysUntilTargetOf(body, now) ==
  MathMax(IntNum(1),
          MathRound(Div(Sub(NewDate(body.targetDate), now),
                        IntNum(1000 * 60 * 60 * 24))))

\* if (weeklyWeightChange)
usesWeeklyRate(body) == Truthy(body.weeklyWeightChange)

\* usesTargetDate with || in place of &&.
usesTargetDateEither(body) ==
  /\ ~Truthy(body.weeklyWeightChange)
  /\ \/ Truthy(body.goalWeight)
     \/ Truthy(body.targetDate)

\* else if (goalWeight && targetDate)
usesTargetDate(body) ==
  /\ ~usesWeeklyRate(body)
  /\ Truthy(body.goalWeight)
  /\ Truthy(body.targetDate)

\* weeklyRateCalories with the weekly total not spread over the 7 days.
weeklyRateCaloriesUndivided(body, maintenanceCalories) ==
  MathRound(Add(maintenanceCalories,
                Mul(body.weeklyWeightChange, IntNum(3500))))

\* The body of the weekly-rate branch.
weeklyRateCalories(body, maintenanceCalories) ==
  LET dailyCalorieAdjustment ==
        Div(Mul(body.weeklyWeightChange, IntNum(3500)), IntNum(7))
  IN  MathRound(Add(maintenanceCalories, dailyCalorieAdjustment))

\* The body of the goal-weight/target-date branch.
targetDateCalories(body, now, maintenanceCalories) ==
  LET weightDifference == Sub(body.goalWeight, body.currentWeight)
      totalCalorieDifference == Mul(weightDifference, IntNum(3500))
      dailyCalorieDifference ==
        Div(totalCalorieDifference, daysUntilTargetOf(body, now))
  IN  MathRound(Add(maintenanceCalories, dailyCalorieDifference))

\* recommendedCalories as the goal branches leave it, before the minimum.
adjustedCaloriesOf(body, now) ==
  LET maintenanceCalories == maintenanceCaloriesOf(body)
  IN  IF usesWeeklyRate(body)
      THEN weeklyRateCalories(body, maintenanceCalories)
      ELSE IF usesTargetDate(body)
      THEN targetDateCalories(body, now, maintenanceCalories)
      ELSE maintenanceCalories

\* minimumCaloriesOf with the test on 'female': 1200 for it, 1500 for the rest.
minimumCaloriesOfFemale(gender) ==
  IF gender = "female" THEN IntNum(1200) ELSE IntNum(1500)

minimumCaloriesOf(gender) ==
  IF gender = "male" THEN IntNum(1500) ELSE IntNum(1200)

recommendedCaloriesOf(body, now) ==
  MathMax(minimumCaloriesOf(body.gender), adjustedCaloriesOf(body, now))

\* macroBase taken from the maintenance calories.
macroBaseMaintenance(body, now) == maintenanceCaloriesOf(body)

\* The calories the macronutrient split is taken from.
macroBase(body, now) == recommendedCaloriesOf(body, now)

proteinOf(cal) == MathRound(Div(Mul(cal, Num(3, 10)), IntNum(4)))

fatOf(cal) == MathRound(Div(Mul(cal, Num(25, 100)), IntNum(9)))

carbsOf(cal) == MathRound(Div(Mul(cal, Num(45, 100)), IntNum(4)))

\* res.status(200).json({success: true, data: {...}})
successResponse(body, now) ==
  [status |-> 200,
   success |-> TRUE,
   error |-> "",
   data |-> [bmr |-> ToJSON(bmrOf(body)),
             maintenanceCalories |-> ToJSON(maintenanceCaloriesOf(body)),
             recommendedCalories |-> ToJSON(recommendedCaloriesOf(body, now)),
             protein |-> ToJSON(proteinOf(macroBase(body, now))),
             fat |-> ToJSON(fatOf(macroBase(body, now))),
             carbs |-> ToJSON(carbsOf(macroBase(body, now)))]]

handlerLocals(body, now) ==
  [bmr |-> bmrOf(body),
   maintenanceCalories |-> maintenanceCaloriesOf(body),
   daysUntilTarget |->
     IF usesTargetDate(body) THEN daysUntilTargetOf(body, now) ELSE Undefined,
   adjustedCalories |-> adjustedCaloriesOf(body, now),
   recommendedCalories |-> recommendedCaloriesOf(body, now)]

----------------------------------------------------------------------------
(* Strings: a string is the sequence of its characters *)

UpperCase ==
  <<"A", "B", "C", "D", "E", "F", "G", "H", "I", "J", "K", "L", "M",
    "N", "O", "P", "Q", "R", "S", "T", "U", "V", "W", "X", "Y", "Z">>

LowerCase ==
  <<"a", "b", "c", "d", "e", "f", "g", "h", "i", "j", "k", "l", "m",
    "n", "o", "p", "q", "r", "s", "t", "u", "v", "w", "x", "y", "z">>

Digits == <<"0", "1", "2", "3", "4", "5", "6", "7", "8", "9">>

\* String.prototype.toLowerCase
toLowerCase(str) ==
  [i \in 1 .. Len(str) |->
     IF \E j \in 1 .. 26 : UpperCase[j] = str[i]
     THEN LowerCase[CHOOSE j \in 1 .. 26 : UpperCase[j] = str[i]]
     ELSE str[i]]

\* String.prototype.includes
includes(str, pattern) ==
  \E i \in 0 .. (Len(str) - Len(pattern)) :
     SubSeq(str, i + 1, i + Len(pattern)) = pattern

\* String.prototype.split(" "): every single space separates two tokens, so
\* a leading, trailing or repeated space yields an empty token.
RECURSIVE split(_)
split(str) ==
  IF \A i \in 1 .. Len(str) : str[i] # " "
  THEN <<str>>
  ELSE LET i == CHOOSE k \in 1 .. Len(str) :
                  /\ str[k] = " "
                  /\ \A j \in 1 .. (k - 1) : str[j] # " "
       IN  <<SubSeq(str, 1, i - 1)>> \o split(SubSeq(str, i + 1, Len(str)))

\* findIndex with a test on the first word of the pattern only, by which the
\* token 'chicken' would hold the keyword 'chicken breast'.
findIndexIncludingFirstWord(words, pattern) ==
  LET head == split(pattern)[1]
  IN  IF \E i \in 1 .. Len(words) : includes(words[i], head)
      THEN (CHOOSE i \in 1 .. Len(words) :
              /\ includes(words[i], head)
              /\ \A j \in 1 .. (i - 1) : ~includes(words[j], head)) - 1
      ELSE -1

\* Array.prototype.findIndex with the test word.includes(pattern): the
\* zero-based index of the first such word, -1 if there is none.
findIndexIncluding(words, pattern) ==
  IF \E i \in 1 .. Len(words) : includes(words[i], pattern)
  THEN (CHOOSE i \in 1 .. Len(words) :
          /\ includes(words[i], pattern)
          /\ \A j \in 1 .. (i - 1) : ~includes(words[j], pattern)) - 1
  ELSE -1

IsDigit(c) == \E j \in 1 .. 10 : Digits[j] = c

DigitValue(c) == (CHOOSE j \in 1 .. 10 : Digits[j] = c) - 1

RECURSIVE Power10(_)
Power10(k) == IF k = 0 THEN 1 ELSE 10 * Power10(k - 1)

\* The integer written by the digits of str, its other characters skipped.
RECURSIVE DigitsValue(_)
DigitsValue(str) ==
  IF str = <<>> THEN 0
  ELSE LET front == SubSeq(str, 1, Len(str) - 1)
           c == str[Len(str)]
       IN  IF IsDigit(c) THEN 10 * DigitsValue(front) + DigitValue(c)
           ELSE DigitsValue(front)

\* An optional sign, then digits with at most one decimal point among them.
IsDecimalLiteral(str) ==
  LET body == IF str # <<>> /\ str[1] \in {"+", "-"}
              THEN SubSeq(str, 2, Len(str)) ELSE str
  IN  /\ \A i \in 1 .. Len(body) : IsDigit(body[i]) \/ body[i] = "."
      /\ \E i \in 1 .. Len(body) : IsDigit(body[i])
      /\ Cardinality({i \in 1 .. Len(body) : body[i] = "."}) <= 1

DecimalValue(str) ==
  LET dots == {i \in 1 .. Len(str) : str[i] = "."}
      places == IF dots = {} THEN 0
                ELSE Len(str) - (CHOOSE i \in dots : TRUE)
      value == Num(DigitsValue(str), Power10(places))
  IN  IF str[1] = "-" THEN Sub(IntNum(0), value) ELSE value

\* ToNumber of a string without white space, for decimal literals: the empty
\* string is 0, a decimal literal its value, anything else NaN.  (Exponents,
\* hexadecimal literals and Infinity are not among the tokens of the model.)
StringToNumber(str) ==
  IF str = <<>> THEN IntNum(0)
  ELSE IF IsDecimalLiteral(str) THEN DecimalValue(str)
  ELSE NaN

\* isNaN(str)
isNaN(str) == StringToNumber(str).t = "nan"

\* parseFloat: the value of the longest prefix that is a decimal literal,
\* NaN if there is none, as for the empty string.
parseFloat(str) ==
  LET prefixes == {k \in 1 .. Len(str) : IsDecimalLiteral(SubSeq(str, 1, k))}
  IN  IF prefixes = {} THEN NaN
      ELSE DecimalValue(
             SubSeq(str, 1, CHOOSE k \in prefixes : \A j \in prefixes : j <= k))

----------------------------------------------------------------------------
(* utils/nutritionAnalysis.js *)

\* Object.entries(foodDatabase), in the order of declaration.
foodDatabase ==
  <<
   [food |-> <<"a", "p", "p", "l", "e">>,
    calories |-> IntNum(95), protein |-> Num(1, 2), carbs |-> IntNum(25), fat |-> Num(3, 10)],
   [food |-> <<"b", "a", "n", "a", "n", "a">>,
    calories |-> IntNum(105), protein |-> Num(13, 10), carbs |-> IntNum(27), fat |-> Num(2, 5)],
   [food |-> <<"o", "r", "a", "n", "g", "e">>,
    calories |-> IntNum(62), protein |-> Num(6, 5), carbs |-> IntNum(15), fat |-> Num(1, 5)],
   [food |-> <<"c", "h", "i", "c", "k", "e", "n", " ", "b", "r", "e", "a", "s", "t">>,
    calories |-> IntNum(165), protein |-> IntNum(31), carbs |-> IntNum(0), fat |-> Num(18, 5)],
   [food |-> <<"s", "a", "l", "m", "o", "n">>,
    calories |-> IntNum(206), protein |-> IntNum(22), carbs |-> IntNum(0), fat |-> IntNum(13)],
   [food |-> <<"r", "i", "c", "e">>,
    calories |-> IntNum(130), protein |-> Num(27, 10), carbs |-> IntNum(28), fat |-> Num(3, 10)],
   [food |-> <<"p", "a", "s", "t", "a">>,
    calories |-> IntNum(131), protein |-> IntNum(5), carbs |-> IntNum(25), fat |-> Num(11, 10)],
   [food |-> <<"b", "r", "e", "a", "d">>,
    calories |-> IntNum(79), protein |-> IntNum(3), carbs |-> IntNum(15), fat |-> IntNum(1)],
   [food |-> <<"e", "g", "g">>,
    calories |-> IntNum(78), protein |-> IntNum(6), carbs |-> Num(3, 5), fat |-> IntNum(5)],
   [food |-> <<"m", "i", "l", "k">>,
    calories |-> IntNum(42), protein |-> Num(17, 5), carbs |-> IntNum(5), fat |-> IntNum(1)],
   [food |-> <<"c", "o", "f", "f", "e", "e">>,
    calories |-> IntNum(2), protein |-> Num(1, 10), carbs |-> IntNum(0), fat |-> IntNum(0)],
   [food |-> <<"t", "e", "a">>,
    calories |-> IntNum(1), protein |-> IntNum(0), carbs |-> Num(1, 5), fat |-> IntNum(0)],
   [food |-> <<"y", "o", "g", "u", "r", "t">>,
    calories |-> IntNum(59), protein |-> Num(7, 2), carbs |-> IntNum(5), fat |-> Num(33, 10)],
   [food |-> <<"c", "h", "e", "e", "s", "e">>,
    calories |-> IntNum(110), protein |-> IntNum(7), carbs |-> Num(2, 5), fat |-> IntNum(9)],
   [food |-> <<"s", "a", "l", "a", "d">>,
    calories |-> IntNum(20), protein |-> IntNum(1), carbs |-> IntNum(3), fat |-> Num(1, 5)],
   [food |-> <<"p", "i", "z", "z", "a">>,
    calories |-> IntNum(285), protein |-> IntNum(12), carbs |-> IntNum(36), fat |-> IntNum(10)],
   [food |-> <<"b", "u", "r", "g", "e", "r">>,
    calories |-> IntNum(354), protein |-> IntNum(20), carbs |-> IntNum(31), fat |-> IntNum(17)],
   [food |-> <<"f", "r", "i", "e", "s">>,
    calories |-> IntNum(312), protein |-> Num(17, 5), carbs |-> IntNum(41), fat |-> IntNum(15)],
   [food |-> <<"s", "o", "d", "a">>,
    calories |-> IntNum(140), protein |-> IntNum(0), carbs |-> IntNum(39), fat |-> IntNum(0)],
   [food |-> <<"i", "c", "e", " ", "c", "r", "e", "a", "m">>,
    calories |-> IntNum(137), protein |-> Num(5, 2), carbs |-> IntNum(16), fat |-> IntNum(7)],
   [food |-> <<"c", "h", "o", "c", "o", "l", "a", "t", "e">>,
    calories |-> IntNum(155), protein |-> IntNum(2), carbs |-> IntNum(15), fat |-> IntNum(9)],
   [food |-> <<"n", "u", "t", "s">>,
    calories |-> IntNum(184), protein |-> IntNum(7), carbs |-> IntNum(6), fat |-> IntNum(16)],
   [food |-> <<"a", "v", "o", "c", "a", "d", "o">>,
    calories |-> IntNum(160), protein |-> IntNum(2), carbs |-> Num(17, 2), fat |-> Num(147, 10)],
   [food |-> <<"p", "o", "t", "a", "t", "o">>,
    calories |-> IntNum(77), protein |-> IntNum(2), carbs |-> IntNum(17), fat |-> Num(1, 10)],
   [food |-> <<"c", "e", "r", "e", "a", "l">>,
    calories |-> IntNum(110), protein |-> IntNum(3), carbs |-> IntNum(22), fat |-> IntNum(1)],
   [food |-> <<"b", "a", "g", "e", "l">>,
    calories |-> IntNum(245), protein |-> IntNum(10), carbs |-> IntNum(48), fat |-> Num(3, 2)],
   [food |-> <<"o", "a", "t", "m", "e", "a", "l">>,
    calories |-> IntNum(150), protein |-> IntNum(5), carbs |-> IntNum(27), fat |-> Num(5, 2)],
   [food |-> <<"s", "a", "n", "d", "w", "i", "c", "h">>,
    calories |-> IntNum(300), protein |-> IntNum(15), carbs |-> IntNum(35), fat |-> IntNum(10)],
   [food |-> <<"w", "r", "a", "p">>,
    calories |-> IntNum(245), protein |-> IntNum(10), carbs |-> IntNum(36), fat |-> IntNum(8)],
   [food |-> <<"t", "u", "r", "k", "e", "y">>,
    calories |-> IntNum(165), protein |-> IntNum(24), carbs |-> IntNum(0), fat |-> IntNum(7)],
   [food |-> <<"s", "t", "e", "a", "k">>,
    calories |-> IntNum(271), protein |-> IntNum(26), carbs |-> IntNum(0), fat |-> IntNum(19)],
   [food |-> <<"f", "i", "s", "h">>,
    calories |-> IntNum(136), protein |-> IntNum(22), carbs |-> IntNum(0), fat |-> IntNum(5)],
   [food |-> <<"s", "h", "r", "i", "m", "p">>,
    calories |-> IntNum(99), protein |-> IntNum(24), carbs |-> IntNum(0), fat |-> Num(3, 10)],
   [food |-> <<"t", "o", "f", "u">>,
    calories |-> IntNum(76), protein |-> IntNum(8), carbs |-> IntNum(2), fat |-> IntNum(4)],
   [food |-> <<"b", "e", "a", "n", "s">>,
    calories |-> IntNum(127), protein |-> IntNum(8), carbs |-> IntNum(23), fat |-> Num(1, 2)],
   [food |-> <<"l", "e", "n", "t", "i", "l", "s">>,
    calories |-> IntNum(116), protein |-> IntNum(9), carbs |-> IntNum(20), fat |-> Num(2, 5)],
   [food |-> <<"p", "e", "a", "n", "u", "t", " ", "b", "u", "t", "t", "e", "r">>,
    calories |-> IntNum(188), protein |-> IntNum(8), carbs |-> IntNum(6), fat |-> IntNum(16)],
   [food |-> <<"o", "l", "i", "v", "e", " ", "o", "i", "l">>,
    calories |-> IntNum(119), protein |-> IntNum(0), carbs |-> IntNum(0), fat |-> IntNum(14)],
   [food |-> <<"b", "u", "t", "t", "e", "r">>,
    calories |-> IntNum(102), protein |-> Num(1, 10), carbs |-> IntNum(0), fat |-> Num(23, 2)],
   [food |-> <<"t", "o", "m", "a", "t", "o">>,
    calories |-> IntNum(18), protein |-> Num(9, 10), carbs |-> Num(39, 10), fat |-> Num(1, 5)],
   [food |-> <<"l", "e", "t", "t", "u", "c", "e">>,
    calories |-> IntNum(5), protein |-> Num(1, 2), carbs |-> IntNum(1), fat |-> Num(1, 10)],
   [food |-> <<"c", "u", "c", "u", "m", "b", "e", "r">>,
    calories |-> IntNum(8), protein |-> Num(3, 10), carbs |-> Num(19, 10), fat |-> Num(1, 10)],
   [food |-> <<"c", "a", "r", "r", "o", "t">>,
    calories |-> IntNum(25), protein |-> Num(3, 5), carbs |-> IntNum(6), fat |-> Num(1, 10)]
  >>

\* Object.entries(mealTypes), in the order of declaration.
mealTypes ==
  <<[mealType |-> <<"b", "r", "e", "a", "k", "f", "a", "s", "t">>, avgCalories |-> IntNum(400)],
    [mealType |-> <<"l", "u", "n", "c", "h">>, avgCalories |-> IntNum(600)],
    [mealType |-> <<"d", "i", "n", "n", "e", "r">>, avgCalories |-> IntNum(700)],
    [mealType |-> <<"s", "n", "a", "c", "k">>, avgCalories |-> IntNum(200)]>>

NoEstimate ==
  [calories |-> Undefined, protein |-> Undefined, carbs |-> Undefined,
   fat |-> Undefined, description |-> <<>>]

\* The totals as they would start if they were kept between the calls.
startTotalsKept ==
  IF est = NoEstimate
  THEN [calories |-> IntNum(0), protein |-> IntNum(0), carbs |-> IntNum(0),
        fat |-> IntNum(0)]
  ELSE [calories |-> est.calories, protein |-> est.protein,
        carbs |-> est.carbs, fat |-> est.fat]

\* let totalCalories = 0; ... let totalFat = 0: locals, fresh in every call.
startTotals ==
  [calories |-> IntNum(0), protein |-> IntNum(0), carbs |-> IntNum(0),
   fat |-> IntNum(0)]

\* detectedMealType looking the table through from its end: the last meal
\* type of the table that lowerText includes.
detectedMealTypeLast(lowerText) ==
  IF \E i \in 1 .. Len(mealTypes) : includes(lowerText, mealTypes[i].mealType)
  THEN CHOOSE i \in 1 .. Len(mealTypes) :
         /\ includes(lowerText, mealTypes[i].mealType)
         /\ \A j \in (i + 1) .. Len(mealTypes) :
               ~includes(lowerText, mealTypes[j].mealType)
  ELSE 0

\* The index in mealTypes of the first meal type lowerText includes, 0 for null.
detectedMealType(lowerText) ==
  IF \E i \in 1 .. Len(mealTypes) : includes(lowerText, mealTypes[i].mealType)
  THEN CHOOSE i \in 1 .. Len(mealTypes) :
         /\ includes(lowerText, mealTypes[i].mealType)
         /\ \A j \in 1 .. (i - 1) : ~includes(lowerText, mealTypes[j].mealType)
  ELSE 0

\* The quantity detection of one food that lowerText includes.
quantityOf(lowerText, food) ==
  LET words == split(lowerText)
      foodIndex == findIndexIncluding(words, food)
  IN  IF foodIndex > 0
      THEN LET prevWord == words[foodIndex]
           IN  IF ~isNaN(prevWord) THEN parseFloat(prevWord)
               ELSE IF prevWord = <<"h", "a", "l", "f">> \/ prevWord = <<"a", "-", "h", "a", "l", "f">>
               THEN Num(1, 2)
               ELSE IF prevWord = <<"q", "u", "a", "r", "t", "e", "r">>
               THEN Num(1, 4)
               ELSE IF prevWord = <<"d", "o", "u", "b", "l", "e">> \/ prevWord = <<"t", "w", "o">>
               THEN IntNum(2)
               ELSE IF prevWord = <<"t", "r", "i", "p", "l", "e">> \/ prevWord = <<"t", "h", "r", "e", "e">>
               THEN IntNum(3)
               ELSE IntNum(1)
      ELSE IntNum(1)

\* totalCalories += nutrition.calories * quantity; and the three others.
addNutrition(totals, nutrition, quantity) ==
  [calories |-> Add(totals.calories, Mul(nutrition.calories, quantity)),
   protein |-> Add(totals.protein, Mul(nutrition.protein, quantity)),
   carbs |-> Add(totals.carbs, Mul(nutrition.carbs, quantity)),
   fat |-> Add(totals.fat, Mul(nutrition.fat, quantity))]

\* totalsAfter without the overlaps: an entry whose keyword lies inside
\* another keyword that lowerText includes is passed over.
RECURSIVE totalsAfterDeduplicated(_, _)
totalsAfterDeduplicated(lowerText, k) ==
  IF k = 0 THEN startTotals
  ELSE LET totals == totalsAfterDeduplicated(lowerText, k - 1)
           entry == foodDatabase[k]
           inside == \E l \in 1 .. Len(foodDatabase) :
                       /\ l # k
                       /\ includes(foodDatabase[l].food, entry.food)
                       /\ includes(lowerText, foodDatabase[l].food)
       IN  IF includes(lowerText, entry.food) /\ ~inside
           THEN addNutrition(totals, entry, quantityOf(lowerText, entry.food))
           ELSE totals

\* The totals after the first k entries of foodDatabase have been looked for.
RECURSIVE totalsAfter(_, _)
totalsAfter(lowerText, k) ==
  IF k = 0 THEN startTotals
  ELSE LET totals == totalsAfter(lowerText, k - 1)
           entry == foodDatabase[k]
       IN  IF includes(lowerText, entry.food)
           THEN addNutrition(totals, entry, quantityOf(lowerText, entry.food))
           ELSE totals

\* foodsFound with the meal type looked at first: a meal-type word hides the
\* food keywords.
foodsFoundUnlessMealType(lowerText) ==
  /\ detectedMealType(lowerText) = 0
  /\ \E k \in 1 .. Len(foodDatabase) : includes(lowerText, foodDatabase[k].food)

foodsFound(lowerText) ==
  \E k \in 1 .. Len(foodDatabase) : includes(lowerText, foodDatabase[k].food)

\* The totals of a text without keyword or meal type, were they left as they
\* started.
defaultTotalsLeftAtZero ==
  [calories |-> IntNum(0), protein |-> IntNum(0), carbs |-> IntNum(0),
   fat |-> IntNum(0)]

\* totalCalories = 350; totalProtein = 15; totalCarbs = 35; totalFat = 12
defaultTotals ==
  [calories |-> IntNum(350), protein |-> IntNum(15), carbs |-> IntNum(35),
   fat |-> IntNum(12)]

roughEstimateBasedOnMealType(text) ==
  LET lowerText == toLowerCase(text)
      i == detectedMealType(lowerText)
  IN  IF i > 0
      THEN LET avgCalories == mealTypes[i].avgCalories
           IN  [calories |-> avgCalories,
                protein |->
                  MathRound(Div(Mul(avgCalories, Num(25, 100)), IntNum(4))),
                carbs |->
                  MathRound(Div(Mul(avgCalories, Num(5, 10)), IntNum(4))),
                fat |->
                  MathRound(Div(Mul(avgCalories, Num(25, 100)), IntNum(9))),
                description |-> text]
      ELSE [calories |-> IntNum(350), protein |-> IntNum(15),
            carbs |-> IntNum(35), fat |-> IntNum(12), description |-> text]

\* Which return of analyzeWithSimpleAlgorithm answers text.
simplePath(text) ==
  LET lowerText == toLowerCase(text)
  IN  IF foodsFound(lowerText) THEN "keywords"
      ELSE IF detectedMealType(lowerText) > 0 THEN "mealType"
      ELSE "default"

analyzeWithSimpleAlgorithm(text) ==
  LET lowerText == toLowerCase(text)
      found == foodsFound(lowerText)
      detected == detectedMealType(lowerText)
  IN  IF ~found /\ detected > 0
      THEN roughEstimateBasedOnMealType(text)
      ELSE LET totals == IF ~found /\ detected = 0
                         THEN defaultTotals
                         ELSE totalsAfter(lowerText, Len(foodDatabase))
           IN  [calories |-> MathRound(totals.calories),
                protein |-> MathRound(totals.protein),
                carbs |-> MathRound(totals.carbs),
                fat |-> MathRound(totals.fat),
                description |-> text]

Returned(value) == [thrown |-> FALSE, value |-> value]

Thrown == [thrown |-> TRUE, value |-> NoEstimate]

\* An external integration that answers by meal type only.
analyzeWithExternalAPIByMealType(text, fails) ==
  IF fails THEN Thrown ELSE Returned(roughEstimateBasedOnMealType(text))

\* The placeholder runs the simple algorithm and rethrows what it catches.
\* `fails` stands for a failure of the API call the placeholder is to hold;
\* as the code stands no string text makes it throw.
analyzeWithExternalAPI(text, fails) ==
  IF fails THEN Thrown ELSE Returned(analyzeWithSimpleAlgorithm(text))

\* analyzeTextForCalories with a catch that runs the simple algorithm.
analyzeTextForCaloriesRetrying(text, key, fails) ==
  LET attempt == IF key
                 THEN analyzeWithExternalAPI(text, fails)
                 ELSE Returned(analyzeWithSimpleAlgorithm(text))
  IN  IF attempt.thrown
      THEN Returned(analyzeWithSimpleAlgorithm(text))
      ELSE attempt

\* key: process.env.NUTRITION_API_KEY is set.
analyzeTextForCalories(text, key, fails) ==
  LET attempt == IF key
                 THEN analyzeWithExternalAPI(text, fails)
                 ELSE Returned(analyzeWithSimpleAlgorithm(text))
  IN  IF attempt.thrown
      THEN Returned(roughEstimateBasedOnMealType(text))
      ELSE attempt

\* The return that produced the answer of analyzeTextForCalories.
estimatePath(text, key, fails) ==
  IF key /\ fails THEN "fallback" ELSE simplePath(text)

----------------------------------------------------------------------------
(* The document store: the collections of Meal, Goal and Weight documents *)

\* The users that protect has let in (req.user.id).
Users == {"u1", "u2"}

Collections == {"meals", "goals", "weights"}

\* The documents a collection holds at most.
MaxDocs == 2

\* The documents all collections hold at most, where requests on all three
\* are drawn.
MaxStored == 1

DocIds == 1 .. MaxDocs

\* A date is a calendar day and a time of that day.
Days == {1, 2}

Times == {"08:00", "20:00"}

\* A place of a collection that holds no document.
NoDoc ==
  [user |-> Absent, createdBy |-> Absent, day |-> 0, time |-> Absent,
   value |-> Undefined]

EmptyCollection == [i \in DocIds |-> NoDoc]

NoHandlerRequest == [user |-> Absent, id |-> 0, collection |-> Absent]

NoHandlerResponse == [status |-> 0, success |-> FALSE, error |-> ""]

\* Nothing stored and no handler called.
NoStore ==
  /\ handler = "none"
  /\ hreq = NoHandlerRequest
  /\ hres = NoHandlerResponse
  /\ analyzed = <<>>
  /\ docs = [c \in Collections |-> EmptyCollection]
  /\ profile = [u \in Users |-> Undefined]

\* The createWeightEntry requests that may be between two awaits at once.
MaxProcs == 2

Procs == 1 .. MaxProcs

\* A request that has not arrived.
IdleProc ==
  [at |-> "idle", user |-> Absent, day |-> 0, time |-> Absent,
   existingEntry |-> FALSE, id |-> 0, entriesCount |-> 0, status |-> 0]

\* No request at the door of protect.  NoHeader: the field is absent.
NoHeader == [kind |-> "absent", chars |-> <<>>, num |-> 0]

NoGate ==
  [at |-> "none", authorization |-> NoHeader,
   cookies |-> [parsed |-> FALSE, token |-> NoHeader], token |-> NoHeader,
   user |-> Absent, nextCalls |-> 0, status |-> 0, error |-> "",
   reached |-> FALSE]

\* No user document in a save.  A password is the sequence of the plain
\* text and of the salts it was hashed with; the empty sequence is undefined.
NoAccount ==
  [at |-> "none", user |-> Absent, password |-> <<>>, modified |-> FALSE,
   wasModified |-> FALSE, stored |-> <<>>, original |-> <<>>, salt |-> "",
   nextCalls |-> 0, written |-> FALSE, rejected |-> FALSE]

\* No request between two awaits, none at the door, no save under way.
NoSession ==
  /\ inflight = [p \in Procs |-> IdleProc]
  /\ gate = NoGate
  /\ account = NoAccount

\* What a handler throws or passes to next: the fields errorHandler reads.
\* statusCode 0 stands for an error that carries no statusCode.
Failure(name, code, message, statusCode) ==
  [name |-> name, code |-> code, message |-> message,
   statusCode |-> statusCode]

HandlerError(message, statusCode) ==
  Failure("Error", 0, message, statusCode)

\* errorHandler on any error: of its tests the later one overrides the
\* earlier, and an error without statusCode is answered 500.
errorAnswer(err) ==
  LET error ==
        IF err.name = "TokenExpiredError"
        THEN ErrorResponse("Token expired", 401)
        ELSE IF err.name = "JsonWebTokenError"
        THEN ErrorResponse("Invalid token", 401)
        ELSE IF err.name = "ValidationError"
        THEN ErrorResponse(err.message, 400)
        ELSE IF err.code = 11000
        THEN ErrorResponse("Duplicate field value entered", 400)
        ELSE IF err.name = "CastError"
        THEN ErrorResponse("Resource not found", 404)
        ELSE ErrorResponse(err.message, err.statusCode)
  IN  [status |-> IF error.statusCode # 0 THEN error.statusCode ELSE 500,
       success |-> FALSE,
       error |-> IF error.message # "" THEN error.message ELSE "Server Error",
       data |-> NoDoc]

\* res.status(status).json({ success: true, data })
answer(status, data) ==
  [status |-> status, success |-> TRUE, error |-> "", data |-> data]

----------------------------------------------------------------------------
(* controllers/meals.controller.js: the callers of the estimator *)

\* A value of req.body.text or req.body.originalText: the field is absent, a
\* string, or a number (JSON carries what the client sends).
NoText == [kind |-> "absent", chars |-> <<>>, num |-> 0]

StringText(chars) == [kind |-> "string", chars |-> chars, num |-> 0]

NumberText(n) == [kind |-> "number", chars |-> <<>>, num |-> n]

\* !text is false for a non-empty string and a number other than 0.
TruthyText(v) ==
  \/ v.kind = "string" /\ v.chars # <<>>
  \/ v.kind = "number" /\ v.num # 0

\* await analyzeTextForCalories(v): on a value that is no string
\* text.toLowerCase() throws in the algorithm and again in the catch.
awaitAnalyzeTextForCalories(v, key, fails) ==
  IF v.kind = "string"
  THEN analyzeTextForCalories(v.chars, key, fails)
  ELSE Thrown

\* The test of analyzeMealText on an absent field only: the empty string
\* passes.
textMissingWhenAbsent(body) == body.text.kind = "absent"

\* if (!text)
textMissing(body) == ~TruthyText(body.text)

\* req.body.entryMethod === "text" && req.body.originalText
entersByText(body) ==
  body.entryMethod = "text" /\ TruthyText(body.originalText)

\* req.body.entryMethod === "image" && req.files && req.files.image
entersByImage(body) ==
  ~entersByText(body) /\ body.entryMethod = "image" /\ body.hasImage

\* The places of a collection that hold no document.
FreeIds(c) == {i \in DocIds : docs[c][i] = NoDoc}

\* The documents of all collections.
Stored == {ci \in Collections \X DocIds : docs[ci[1]][ci[2]] # NoDoc}

\* The collection c takes one more document.
HasRoom(c) == FreeIds(c) # {}

\* The _id of the next document of the collection c.
NextId(c) == CHOOSE i \in FreeIds(c) : \A j \in FreeIds(c) : i <= j

\* Model.create(body) for the user u: the new document.
NewDoc(u, body, value) ==
  [user |-> u, createdBy |-> u, day |-> body.day, time |-> body.time,
   value |-> value]

----------------------------------------------------------------------------
(* The handlers as actions *)

NoResponse ==
  [status |-> 0, success |-> FALSE, error |-> "", data |-> NoData]

NoRequest ==
  [currentWeight |-> Undefined, height |-> Undefined,
   age |-> Undefined, gender |-> Absent, activityLevel |-> Absent,
   weeklyWeightChange |-> Undefined, goalWeight |-> Undefined,
   targetDate |-> Undefined]

\* The calls counted after a remembered call, at most.
MaxSince == 2

\* What a caller keeps of earlier calls: their inputs and outputs, and how
\* many calls came after them.
NoMemo ==
  [req |-> NoRequest, today |-> IntNum(0), res |-> NoResponse,
   text |-> <<>>, est |-> NoEstimate, estPath |-> "none", since |-> 0]

\* Nothing called yet; `key` tells whether NUTRITION_API_KEY is set.
Started(key) ==
  /\ pc = "idle"
  /\ req = NoRequest
  /\ today = IntNum(0)
  /\ locals = NoLocals
  /\ res = NoResponse
  /\ mealText = <<>>
  /\ apiKey = key
  /\ est = NoEstimate
  /\ estPath = "none"
  /\ memo = NoMemo
  /\ NoStore
  /\ NoSession

Init == Started(FALSE)

InitEitherBackend == \E key \in BOOLEAN : Started(key)

\* POST /api/goals/calculate-calories with the body `body`, handled at `now`.
calculateCalories(body, now) ==
  /\ pc = "idle"
  /\ pc' = "done"
  /\ req' = body
  /\ today' = now
  /\ IF missingRequired(body)
     THEN /\ res' = errorHandler(
                      ErrorResponse("Please provide all required fields", 400))
          /\ locals' = NoLocals
     ELSE /\ res' = successResponse(body, now)
          /\ locals' = handlerLocals(body, now)
  /\ UNCHANGED <<mealText, apiKey, est, estPath, memo, storeVars,
                 sessionVars>>

\* One call analyzeTextForCalories(t); `fails` tells whether the external
\* integration throws in this call.
estimate(t, fails) ==
  /\ pc = "idle"
  /\ pc' = "done"
  /\ mealText' = t
  /\ est' = analyzeTextForCalories(t, apiKey, fails).value
  /\ estPath' = estimatePath(t, apiKey, fails)
  /\ UNCHANGED <<req, today, locals, res, apiKey, memo, storeVars,
                 sessionVars>>

\* The call has returned and the next one may come; the caller remembers
\* the finished calls (keep) or lets them pass.
nextCall(keep) ==
  /\ pc = "done"
  /\ pc' = "idle"
  /\ memo' = IF keep
             THEN [req |-> req, today |-> today, res |-> res,
                   text |-> mealText, est |-> est, estPath |-> estPath,
                   since |-> 0]
             ELSE [memo EXCEPT !.since = IF @ < MaxSince THEN @ + 1 ELSE @]
  /\ UNCHANGED <<req, today, locals, res, mealText, apiKey, est, estPath,
               storeVars, sessionVars>>

\* POST /api/meals/analyze-text by the user u.
analyzeMealText(u, body, fails) ==
  \E analysis \in {awaitAnalyzeTextForCalories(body.text, apiKey, fails)} :
      /\ handler' = "analyzeMealText"
      /\ hreq' = [user |-> u, id |-> 0, collection |-> "meals", body |-> body]
      /\ IF textMissing(body)
         THEN /\ analyzed' = <<>>
              /\ hres' = errorAnswer(
                           HandlerError("Please provide meal text to analyze", 400))
         ELSE /\ analyzed' = <<body.text>>
              /\ hres' =
                   IF analysis.thrown
                   THEN errorAnswer(HandlerError(
                          "Could not analyze meal text. Please try again or enter details manually.",
                          400))
                   ELSE answer(200, analysis.value)
      /\ UNCHANGED <<calcVars, apiKey, docs, profile, sessionVars>>

\* POST /api/meals by the user u.  imageOutcome: processAndUploadImage throws,
\* uploads, or uploads and recognises the food; accepted: Meal.create finds
\* the body valid.
createMeal(u, body, fails, imageOutcome, accepted) ==
  \E analysis \in {awaitAnalyzeTextForCalories(body.originalText, apiKey, fails)} :
  LET calories == IF entersByText(body) THEN analysis.value.calories
                  ELSE IF entersByImage(body) /\ imageOutcome = "recognised"
                  THEN IntNum(350)
                  ELSE body.value
      id == NextId("meals")
      meal == NewDoc(u, body, calories)
  IN  /\ HasRoom("meals")
      /\ handler' = "createMeal"
      /\ hreq' = [user |-> u, id |-> 0, collection |-> "meals", body |-> body]
      /\ analyzed' = IF entersByText(body) THEN <<body.originalText>> ELSE <<>>
      /\ IF entersByText(body) /\ analysis.thrown
         THEN /\ hres' = errorAnswer(HandlerError(
                           "Could not analyze meal text. Please enter details manually.",
                           400))
              /\ UNCHANGED docs
         ELSE IF entersByImage(body) /\ imageOutcome = "thrown"
         THEN /\ hres' = errorAnswer(HandlerError(
                           "Could not process meal image. Please try again or enter details manually.",
                           400))
              /\ UNCHANGED docs
         ELSE IF ~accepted
         THEN /\ hres' = errorAnswer(
                           Failure("ValidationError", 0, "validation failed", 0))
              /\ UNCHANGED docs
         ELSE /\ hres' = answer(201, meal)
              /\ docs' = [docs EXCEPT !["meals"][id] = meal]
      /\ UNCHANGED <<calcVars, apiKey, profile, sessionVars>>

----------------------------------------------------------------------------
(* The handlers of one document: meals, goals and weight entries *)

\* An id that is no ObjectId: findById rejects with a CastError.
MalformedId == 0 - 1

\* Model.findById(id)
findById(c, id) == IF id \in DocIds THEN docs[c][id] ELSE NoDoc

\* The three handlers' common start: the document is looked up, then its
\* user is compared with req.user.id.  "ok" lets the handler go on.
lookupOwnerUnchecked(c, u, id) ==
  IF id = MalformedId THEN "cast"
  ELSE IF findById(c, id) = NoDoc THEN "missing"
  ELSE "ok"

lookup(c, u, id) ==
  IF id = MalformedId THEN "cast"
  ELSE IF findById(c, id) = NoDoc THEN "missing"
  ELSE IF findById(c, id).user # u THEN "foreign"
  ELSE "ok"

\* The answer to a request that the common start turns away.
turnedAway(outcome) ==
  IF outcome = "cast" THEN errorAnswer(Failure("CastError", 0, "Cast to ObjectId failed", 0))
  ELSE IF outcome = "missing" THEN errorAnswer(HandlerError("not found with id", 404))
  ELSE errorAnswer(HandlerError("User not authorized", 401))

\* GET /:id by the user u.
getDocument(name, c, u, id) ==
  /\ handler' = name
  /\ hreq' = [user |-> u, id |-> id, collection |-> c]
  /\ hres' = IF lookup(c, u, id) = "ok" THEN answer(200, findById(c, id))
             ELSE turnedAway(lookup(c, u, id))
  /\ UNCHANGED <<calcVars, apiKey, analyzed, docs, profile, sessionVars>>

\* DELETE /:id by the user u: doc.remove(), and data: {}.
deleteDocument(name, c, u, id) ==
  /\ handler' = name
  /\ hreq' = [user |-> u, id |-> id, collection |-> c]
  /\ IF lookup(c, u, id) = "ok"
     THEN /\ docs' = [docs EXCEPT ![c][id] = NoDoc]
          /\ hres' = answer(200, NoDoc)
     ELSE /\ hres' = turnedAway(lookup(c, u, id))
          /\ UNCHANGED docs
  /\ UNCHANGED <<calcVars, apiKey, analyzed, profile, sessionVars>>

\* The fields an update sets: req.body as the client sent it.  A field that
\* is absent (a day 0 for the date) is left as it is.
setFields(doc, body) ==
  [doc EXCEPT !.user = IF body.user # Absent THEN body.user ELSE @,
              !.day = IF body.day # 0 THEN body.day ELSE @,
              !.time = IF body.day # 0 THEN body.time ELSE @]

\* WeightSchema.index({ user: 1, date: 1 }, { unique: true }): another
\* entry of the collection has the same user and the same instant.  The
\* other collections have no such index.
duplicateKey(c, id, doc) ==
  /\ c = "weights"
  /\ \E j \in DocIds \ {id} :
        /\ docs[c][j] # NoDoc
        /\ docs[c][j].user = doc.user
        /\ docs[c][j].day = doc.day
        /\ docs[c][j].time = doc.time

\* PUT /:id by the user u: Model.findByIdAndUpdate(req.params.id, req.body).
updateDocument(name, c, u, id, body) ==
  /\ handler' = name
  /\ hreq' = [user |-> u, id |-> id, collection |-> c]
  /\ IF lookup(c, u, id) # "ok"
     THEN /\ hres' = turnedAway(lookup(c, u, id))
          /\ UNCHANGED docs
     ELSE IF duplicateKey(c, id, setFields(docs[c][id], body))
     THEN /\ hres' = errorAnswer(Failure("MongoError", 11000, "E11000 duplicate key", 0))
          /\ UNCHANGED docs
     ELSE /\ docs' = [docs EXCEPT ![c][id] = setFields(@, body)]
          /\ hres' = answer(200, setFields(docs[c][id], body))
  /\ UNCHANGED <<calcVars, apiKey, analyzed, profile, sessionVars>>

getMeal(u, id) == getDocument("getMeal", "meals", u, id)

updateMeal(u, id, body) == updateDocument("updateMeal", "meals", u, id, body)

deleteMeal(u, id) == deleteDocument("deleteMeal", "meals", u, id)

updateGoal(u, id, body) == updateDocument("updateGoal", "goals", u, id, body)

deleteGoal(u, id) == deleteDocument("deleteGoal", "goals", u, id)

getWeightEntry(u, id) == getDocument("getWeightEntry", "weights", u, id)

updateWeightEntry(u, id, body) ==
  updateDocument("updateWeightEntry", "weights", u, id, body)

deleteWeightEntry(u, id) == deleteDocument("deleteWeightEntry", "weights", u, id)

\* POST /api/goals by the user u: Goal.create(req.body) rejects a body
\* without currentWeight; a truthy currentWeight becomes the profile weight.
createGoal(u, body) ==
  LET id == NextId("goals")
      goal == NewDoc(u, body, body.currentWeight)
  IN  /\ HasRoom("goals")
      /\ handler' = "createGoal"
      /\ hreq' = [user |-> u, id |-> 0, collection |-> "goals"]
      /\ IF body.currentWeight = Undefined
         THEN /\ hres' = errorAnswer(
                           Failure("ValidationError", 0, "Current weight is required", 0))
              /\ UNCHANGED <<docs, profile>>
         ELSE /\ docs' = [docs EXCEPT !["goals"][id] = goal]
              /\ profile' = IF Truthy(body.currentWeight)
                            THEN [profile EXCEPT ![u] = body.currentWeight]
                            ELSE profile
              /\ hres' = answer(201, goal)
      /\ UNCHANGED <<calcVars, apiKey, analyzed, sessionVars>>

\* Weight.findOne({ user, date: { $gte: entryDate, $lt: entryDate + 24 h } }):
\* the user u has an entry on the calendar day.
existingEntry(u, day) ==
  \E i \in DocIds :
    /\ docs["weights"][i] # NoDoc
    /\ docs["weights"][i].user = u
    /\ docs["weights"][i].day = day

\* Weight.countDocuments({ user: req.user.id }) in the collection w.
countDocuments(w, u) == Cardinality({i \in DocIds : w[i] # NoDoc /\ w[i].user = u})

\* POST /api/weight by the user u, in one piece.  The controller's imports
\* lack the User model: the statement of the first entry throws a
\* ReferenceError, after the entry is stored and before the answer, and the
\* profile stays as it was.
createWeightEntry(u, body) ==
  LET id == NextId("weights")
      weightEntry == NewDoc(u, body, body.weight)
      stored == [docs EXCEPT !["weights"][id] = weightEntry]
      entriesCount == countDocuments(stored["weights"], u)
  IN  /\ HasRoom("weights")
      /\ handler' = "createWeightEntry"
      /\ hreq' = [user |-> u, id |-> 0, collection |-> "weights"]
      /\ IF existingEntry(u, body.day)
         THEN /\ hres' = errorAnswer(HandlerError(
                           "You already have a weight entry for this date. Please update the existing entry.",
                           400))
              /\ UNCHANGED <<docs, profile>>
         ELSE IF duplicateKey("weights", id, weightEntry)
         THEN /\ hres' = errorAnswer(
                           Failure("MongoError", 11000, "E11000 duplicate key", 0))
              /\ UNCHANGED <<docs, profile>>
         ELSE /\ docs' = stored
              /\ hres' = IF entriesCount = 1
                         THEN errorAnswer(
                                Failure("ReferenceError", 0, "User is not defined", 0))
                         ELSE answer(201, weightEntry)
              /\ UNCHANGED profile
      /\ UNCHANGED <<calcVars, apiKey, analyzed, sessionVars>>

----------------------------------------------------------------------------
(* middleware/auth.middleware.js: protect *)

\* The tokens of the model: signed for the users u1 and u2, signed for a
\* user who was deleted since, signed and expired, and not a token.
TokenOfU1 == <<"j", "1">>

TokenOfU2 == <<"j", "2">>

TokenOfDeleted == <<"j", "9">>

TokenExpired == <<"j", "x">>

TokenGarbage == <<"g">>

\* jwt.verify(token, secret): the decoded payload, or the error thrown.
jwtVerify(token) ==
  IF token = TokenOfU1 THEN [thrown |-> FALSE, name |-> "", id |-> "u1"]
  ELSE IF token = TokenOfU2 THEN [thrown |-> FALSE, name |-> "", id |-> "u2"]
  ELSE IF token = TokenOfDeleted THEN [thrown |-> FALSE, name |-> "", id |-> "u9"]
  ELSE IF token = TokenExpired
  THEN [thrown |-> TRUE, name |-> "TokenExpiredError", id |-> Absent]
  ELSE [thrown |-> TRUE, name |-> "JsonWebTokenError", id |-> Absent]

\* User.findById(decoded.id) that finds a user for every id.
userFindByIdAnyone(id) == "u1"

\* User.findById(decoded.id): the user, or null (Absent).
userFindById(id) == IF id \in Users THEN id ELSE Absent

\* str.startsWith(prefix)
startsWith(str, prefix) ==
  /\ Len(str) >= Len(prefix)
  /\ SubSeq(str, 1, Len(prefix)) = prefix

Bearer == <<"B", "e", "a", "r", "e", "r">>

\* The token protect takes: from the header if it starts with "Bearer" (the
\* second piece of split(" "), undefined if there is none), and only
\* otherwise from the cookie.
tokenOf(authorization, cookies) ==
  IF TruthyText(authorization) /\ startsWith(authorization.chars, Bearer)
  THEN IF Len(split(authorization.chars)) >= 2
       THEN StringText(split(authorization.chars)[2])
       ELSE NoText
  ELSE IF cookies.parsed /\ TruthyText(cookies.token)
  THEN cookies.token
  ELSE NoText

\* protect on one request.  The awaited findById touches no state of the
\* model, so the middleware is one step.
protect(authorization, cookies) ==
  LET token == tokenOf(authorization, cookies)
      decoded == jwtVerify(token.chars)
      user == userFindById(decoded.id)
      arrived == [gate EXCEPT !.authorization = authorization,
                              !.cookies = cookies, !.token = token]
      refused(message) ==
        [arrived EXCEPT !.at = "answered", !.status = 401, !.error = message]
  IN  /\ gate.at = "none"
      /\ gate' =
           IF ~TruthyText(token)
           THEN refused("Not authorized to access this route")
           ELSE IF decoded.thrown
           THEN refused("Not authorized to access this route")
           ELSE IF user = Absent
           THEN refused("User not found with this ID")
           ELSE [arrived EXCEPT !.at = "next", !.user = user,
                                !.nextCalls = @ + 1]
      /\ UNCHANGED <<calcVars, apiKey, storeVars, inflight, account>>

\* next(): the router runs the handler of the route with req.user set.
routeHandler ==
  /\ gate.at = "next"
  /\ gate' = [gate EXCEPT !.at = "handled", !.reached = TRUE]
  /\ UNCHANGED <<calcVars, apiKey, storeVars, inflight, account>>

----------------------------------------------------------------------------
(* models/User.js: the pre-save hook *)

\* bcrypt.hash(password, salt)
bcryptHash(password, salt) == Append(password, salt)

\* user.save() starts on a document.  "new" and "changed": the password is a
\* plain text and modified; "loaded": the stored hash was selected and is
\* not modified; "unselected": the password was not selected (select: false)
\* and is undefined.
save(u, scenario, plain) ==
  LET old == bcryptHash(<<plain>>, "s0")
  IN  /\ account.at = "none"
      /\ account' =
           [account EXCEPT
              !.at = "test", !.user = u,
              !.password = IF scenario \in {"new", "changed"} THEN <<plain>>
                           ELSE IF scenario = "loaded" THEN old
                           ELSE <<>>,
              !.modified = scenario \in {"new", "changed"},
              !.wasModified = scenario \in {"new", "changed"},
              !.stored = IF scenario = "new" THEN <<>>
                         ELSE IF scenario = "changed"
                         THEN bcryptHash(<<"before">>, "s0")
                         ELSE old,
              !.original = IF scenario = "new" THEN <<>>
                           ELSE IF scenario = "changed"
                           THEN bcryptHash(<<"before">>, "s0")
                           ELSE old]
      /\ UNCHANGED <<calcVars, apiKey, storeVars, inflight, gate>>

\* if (!this.isModified("password")) { next(); } and no return: the hook
\* goes on to bcrypt.genSalt.
preSaveTest ==
  /\ account.at = "test"
  /\ account' = [account EXCEPT
                   !.at = "genSalt",
                   !.nextCalls = IF account.modified THEN @ ELSE @ + 1]
  /\ UNCHANGED <<calcVars, apiKey, storeVars, inflight, gate>>

\* const salt = await bcrypt.genSalt(10)
preSaveGenSalt(salt) ==
  /\ account.at = "genSalt"
  /\ account' = [account EXCEPT !.at = "hash", !.salt = salt]
  /\ UNCHANGED <<calcVars, apiKey, storeVars, inflight, gate>>

\* this.password = await bcrypt.hash(this.password, salt): bcrypt rejects an
\* undefined password, and the assignment marks the path modified.
preSaveHash ==
  /\ account.at = "hash"
  /\ account' =
       IF account.password = <<>>
       THEN [account EXCEPT !.at = "rejected", !.rejected = TRUE]
       ELSE [account EXCEPT !.at = "next",
                            !.password = bcryptHash(@, account.salt),
                            !.modified = TRUE]
  /\ UNCHANGED <<calcVars, apiKey, storeVars, inflight, gate>>

\* The last statement: next()
preSaveNext ==
  /\ account.at = "next"
  /\ account' = [account EXCEPT !.at = "end", !.nextCalls = @ + 1]
  /\ UNCHANGED <<calcVars, apiKey, storeVars, inflight, gate>>

\* The save goes on after the first next(): it writes the modified paths.
\* The hook's later statements run beside it, in either order.
writeModifiedPaths ==
  /\ account.nextCalls >= 1
  /\ ~account.written
  /\ account' = [account EXCEPT
                   !.written = TRUE,
                   !.stored = IF account.modified THEN account.password ELSE @]
  /\ UNCHANGED <<calcVars, apiKey, storeVars, inflight, gate>>

----------------------------------------------------------------------------
(* createWeightEntry await by await: other requests run between its awaits *)

\* The request p of the user u arrives and awaits Weight.findOne.
awaitFindOne(p, u, body) ==
  /\ inflight[p].at = "idle"
  /\ inflight' = [inflight EXCEPT ![p] =
                    [@ EXCEPT !.at = "found", !.user = u, !.day = body.day,
                              !.time = body.time,
                              !.existingEntry = existingEntry(u, body.day)]]
  /\ UNCHANGED <<calcVars, apiKey, storeVars, gate, account>>

\* if (existingEntry) return next(...400); await Weight.create(req.body),
\* which the unique index may refuse.
awaitCreate(p) ==
  LET r == inflight[p]
      id == NextId("weights")
      weightEntry == NewDoc(r.user, r, IntNum(70))
  IN  /\ r.at = "found"
      /\ IF r.existingEntry
         THEN /\ inflight' = [inflight EXCEPT ![p] =
                               [@ EXCEPT !.at = "done", !.status = 400]]
              /\ UNCHANGED docs
         ELSE /\ HasRoom("weights")
              /\ IF duplicateKey("weights", id, weightEntry)
                 THEN /\ inflight' = [inflight EXCEPT ![p] =
                                       [@ EXCEPT !.at = "done", !.status = 400]]
                      /\ UNCHANGED docs
                 ELSE /\ inflight' = [inflight EXCEPT ![p] =
                                       [@ EXCEPT !.at = "created", !.id = id]]
                      /\ docs' = [docs EXCEPT !["weights"][id] = weightEntry]
      /\ UNCHANGED <<calcVars, apiKey, handler, hreq, hres, analyzed, profile,
                     gate, account>>

\* await Weight.countDocuments({ user: req.user.id })
awaitCountDocuments(p) ==
  /\ inflight[p].at = "created"
  /\ inflight' = [inflight EXCEPT ![p] =
                    [@ EXCEPT !.at = "counted",
                              !.entriesCount =
                                 countDocuments(docs["weights"], inflight[p].user)]]
  /\ UNCHANGED <<calcVars, apiKey, storeVars, gate, account>>

\* if (entriesCount === 1) the unbound User throws and the answer is 500;
\* otherwise res.status(201).
respond(p) ==
  /\ inflight[p].at = "counted"
  /\ inflight' = [inflight EXCEPT ![p] =
                    [@ EXCEPT !.at = "done",
                              !.status = IF inflight[p].entriesCount = 1
                                         THEN 500 ELSE 201]]
  /\ UNCHANGED <<calcVars, apiKey, storeVars, gate, account>>

\* The router hands one request to the handler; the guard stands before the
\* choice of the body so that a finished request draws no further bodies.
Next ==
  /\ pc = "idle"
  /\ \E body \in Bodies, now \in Clock : calculateCalories(body, now)

Spec == Init /\ [][Next]_vars

----------------------------------------------------------------------------
(* The texts the model draws and the estimator's specifications *)

\* The longest text joined from the vocabulary, in words.
MaxWords == 2

\* Tokens: the empty token makes leading, trailing and repeated spaces; then
\* quantity words, food words, meal-type words and words the tables lack.
Vocabulary ==
  {<<>>, <<"2">>, <<"1", ".", "5">>, <<"h", "a", "l", "f">>,
   <<"q", "u", "a", "r", "t", "e", "r">>, <<"d", "o", "u", "b", "l", "e">>,
   <<"t", "h", "r", "e", "e">>, <<"a", "p", "p", "l", "e", "s">>,
   <<"A", "p", "p", "l", "e">>, <<"s", "t", "e", "a", "k">>,
   <<"p", "e", "a", "n", "u", "t">>, <<"b", "u", "t", "t", "e", "r">>,
   <<"r", "i", "c", "e">>, <<"b", "r", "e", "a", "k", "f", "a", "s", "t">>,
   <<"l", "u", "n", "c", "h">>, <<"D", "i", "n", "n", "e", "r">>,
   <<"x", "y", "z", "z", "y">>, <<"p", "l", "u", "g", "h">>}

RECURSIVE join(_)
join(words) ==
  IF Len(words) = 1 THEN words[1]
  ELSE words[1] \o <<" ">> \o join(Tail(words))

\* The examples of the specification, some longer than MaxWords.
ExampleTexts ==
  {<<"2", " ", "a", "p", "p", "l", "e", "s", " ", "f", "o", "r", " ", "b", "r", "e", "a", "k", "f", "a", "s", "t">>,
   <<"j", "u", "s", "t", " ", "h", "a", "d", " ", "l", "u", "n", "c", "h">>,
   <<"2", " ", "c", "h", "i", "c", "k", "e", "n", " ", "b", "r", "e", "a", "s", "t">>,
   <<"a", " ", "s", "n", "a", "c", "k", " ", "a", "f", "t", "e", "r", " ", "d", "i", "n", "n", "e", "r">>,
   <<"2", " ", " ", "a", "p", "p", "l", "e", "s">>,
   <<"a", "-", "h", "a", "l", "f", " ", "s", "t", "e", "a", "k">>,
   <<"t", "w", "o", " ", "a", "p", "p", "l", "e", "s">>,
   <<"t", "r", "i", "p", "l", "e", " ", "r", "i", "c", "e">>,
   <<"h", "a", "d", " ", "t", "e", "a">>,
   <<"b", "u", "t", "t", "e", "r", " ", "p", "e", "a", "n", "u", "t", " ", "b", "u", "t", "t", "e", "r">>,
   <<"2", " ", "p", "e", "a", "n", "u", "t", " ", "b", "u", "t", "t", "e", "r">>, <<"-", "2", " ", "a", "p", "p", "l", "e", "s">>}

\* Every non-empty text of at most MaxWords words, and the examples.
Texts ==
  ({join(words) : words \in UNION {[1 .. n -> Vocabulary] : n \in 1 .. MaxWords}}
     \cup ExampleTexts) \ {<<>>}

\* The estimator as the code stands: either backend, and an external
\* integration that is the placeholder and so throws on no string.
NextEstimator ==
  /\ pc = "idle"
  /\ \E t \in Texts : estimate(t, FALSE)

SpecEstimator == InitEitherBackend /\ [][NextEstimator]_vars

\* The estimator with an external integration that may throw.
NextFallback ==
  /\ pc = "idle"
  /\ \E t \in Texts, fails \in BOOLEAN : estimate(t, fails)

SpecFallback == InitEitherBackend /\ [][NextFallback]_vars

\* The texts a client sends as text or originalText.
TextValues ==
  {NoText, StringText(<<>>), NumberText(0), NumberText(5),
   StringText(<<"2", " ", "a", "p", "p", "l", "e", "s", " ", "f", "o", "r", " ", "b", "r", "e", "a", "k", "f", "a", "s", "t">>),
   StringText(<<" ", "r", "i", "c", "e">>)}

TextBodies == [text : TextValues]

MealBodies ==
  [entryMethod : {"text", "manual", "image"}, originalText : TextValues,
   hasImage : BOOLEAN, day : {1}, time : {"08:00"}, value : {IntNum(500)}]

\* One request to one of the two callers of the estimator.
NextMealText ==
  \/ /\ handler = "none"
     /\ \E u \in Users, body \in TextBodies : analyzeMealText(u, body, FALSE)
  \/ /\ handler = "none"
     /\ \E u \in Users, body \in MealBodies, accepted \in BOOLEAN,
           imageOutcome \in {"thrown", "uploaded", "recognised"} :
           createMeal(u, body, FALSE, imageOutcome, accepted)

SpecMealText == InitEitherBackend /\ [][NextMealText]_vars

\* Calls of both functions one after the other, in any order.
CallBodies ==
  {NoRequest} \cup
  [currentWeight : {IntNum(180)}, height : {IntNum(70)}, age : {IntNum(30)},
   gender : {"male"}, activityLevel : {"moderate"},
   weeklyWeightChange : {Undefined, IntNum(-1)},
   goalWeight : {IntNum(179)},
   targetDate : {Undefined, DateString(2 * (36 * 60 * 60 * 1000))}]

\* Two instants one day apart.
CallClock == {IntNum(0), IntNum(24 * 60 * 60 * 1000)}

CallTexts ==
  {<<"2", " ", "a", "p", "p", "l", "e", "s", " ", "f", "o", "r", " ", "b", "r", "e", "a", "k", "f", "a", "s", "t">>,
   <<"j", "u", "s", "t", " ", "h", "a", "d", " ", "l", "u", "n", "c", "h">>,
   <<"x", "y", "z", "z", "y", " ", "p", "l", "u", "g", "h">>}

NextCalls ==
  \/ /\ pc = "idle"
     /\ \E body \in CallBodies, now \in CallClock : calculateCalories(body, now)
  \/ /\ pc = "idle"
     /\ \E t \in CallTexts : estimate(t, FALSE)
  \/ \E keep \in BOOLEAN : nextCall(keep)

SpecCalls == InitEitherBackend /\ [][NextCalls]_vars

----------------------------------------------------------------------------
(* The requests on documents, one after the other *)

\* req.params.id: an id of the collection, with or without a document, or
\* no ObjectId at all.
RequestedIds == DocIds \cup {MalformedId}

\* Meals entered by hand.
ManualMealBodies ==
  {body \in MealBodies :
     body.entryMethod = "manual" /\ body.originalText = NoText /\ ~body.hasImage}

GoalBodies ==
  [day : {1}, time : {"08:00"},
   currentWeight : {Undefined, IntNum(80)}]

WeightBodies == [day : Days, time : Times, weight : {IntNum(70)}]

\* Entries of one instant: two users' entries may share it, one user's not.
SameInstantBodies == {body \in WeightBodies : body.day = 1 /\ body.time = "08:00"}

\* The body of an update names another user, another date, both or neither;
\* meals and goals have no date that matters here.
UpdateBodies ==
  [user : Users \cup {Absent}, day : {0}, time : {Absent}]

WeightUpdateBodies ==
  UpdateBodies \cup [user : Users \cup {Absent}, day : Days, time : Times]

\* Every request is answered before the next one is taken.
NextDocs ==
  \/ /\ Cardinality(Stored) < MaxStored
     /\ \E u \in Users, body \in ManualMealBodies :
          createMeal(u, body, FALSE, "uploaded", TRUE)
  \/ \E u \in Users, id \in RequestedIds : getMeal(u, id)
  \/ \E u \in Users, id \in DocIds, body \in UpdateBodies :
       updateMeal(u, id, body)
  \/ \E u \in Users, id \in RequestedIds : deleteMeal(u, id)
  \/ /\ Cardinality(Stored) < MaxStored
     /\ \E u \in Users, body \in GoalBodies : createGoal(u, body)
  \/ \E u \in Users, id \in DocIds, body \in UpdateBodies :
       updateGoal(u, id, body)
  \/ \E u \in Users, id \in DocIds : deleteGoal(u, id)
  \/ /\ Cardinality(Stored) < MaxStored
     /\ \E u \in Users, body \in SameInstantBodies : createWeightEntry(u, body)
  \/ \E u \in Users, id \in RequestedIds : getWeightEntry(u, id)
  \/ \E u \in Users, id \in DocIds, body \in UpdateBodies :
       updateWeightEntry(u, id, body)
  \/ \E u \in Users, id \in DocIds : deleteWeightEntry(u, id)

SpecDocs == Init /\ [][NextDocs]_vars

\* The requests on weight entries, with dates of two days and two times.
NextWeights ==
  \/ \E u \in Users, body \in WeightBodies : createWeightEntry(u, body)
  \/ \E u \in Users, id \in RequestedIds : getWeightEntry(u, id)
  \/ \E u \in Users, id \in RequestedIds, body \in WeightUpdateBodies :
       updateWeightEntry(u, id, body)
  \/ \E u \in Users, id \in RequestedIds : deleteWeightEntry(u, id)

SpecWeights == Init /\ [][NextWeights]_vars

\* req.headers.authorization: absent, or what the client sent.
Authorizations ==
  {NoText,
   StringText(<<"B", "e", "a", "r", "e", "r", " ", "j", "1">>),
   StringText(<<"B", "e", "a", "r", "e", "r", " ", "j", "2">>),
   StringText(<<"B", "e", "a", "r", "e", "r", " ", "j", "9">>),
   StringText(<<"B", "e", "a", "r", "e", "r", " ", "j", "x">>),
   StringText(<<"B", "e", "a", "r", "e", "r", " ", "g">>),
   StringText(<<"B", "e", "a", "r", "e", "r">>),
   StringText(<<"B", "e", "a", "r", "e", "r", " ", " ", "j", "1">>),
   StringText(<<"B", "e", "a", "r", "e", "r", "j", "1", " ", "j", "2">>),
   StringText(<<"B", "a", "s", "i", "c", " ", "j", "1">>),
   StringText(<<"b", "e", "a", "r", "e", "r", " ", "j", "1">>),
   StringText(<<>>)}

\* req.cookies: undefined when no cookie parser is mounted, as in server.js.
CookieJars ==
  {[parsed |-> FALSE, token |-> NoText]}
    \cup [parsed : {TRUE},
          token : {NoText, StringText(<<>>), StringText(TokenOfU1),
                   StringText(TokenOfU2), StringText(TokenOfDeleted),
                   StringText(TokenExpired), StringText(TokenGarbage)}]

\* One request passes protect or is refused; the handler runs after next().
NextProtect ==
  \/ /\ gate.at = "none"
     /\ \E authorization \in Authorizations, cookies \in CookieJars :
          protect(authorization, cookies)
  \/ routeHandler

SpecProtect == Init /\ [][NextProtect]_vars

\* One save of a user document, the hook and the write step by step.
NextSave ==
  \/ \E u \in Users, scenario \in {"new", "changed", "loaded", "unselected"},
        plain \in {"secret", "hunter2"} : save(u, scenario, plain)
  \/ preSaveTest
  \/ \E salt \in {"s1", "s2"} : preSaveGenSalt(salt)
  \/ preSaveHash
  \/ preSaveNext
  \/ writeModifiedPaths

SpecSave == Init /\ [][NextSave]_vars

\* createWeightEntry requests that run at once, each from await to await.
NextWeightRace ==
  \/ \E p \in Procs, u \in Users, body \in WeightBodies : awaitFindOne(p, u, body)
  \/ \E p \in Procs : awaitCreate(p)
  \/ \E p \in Procs : awaitCountDocuments(p)
  \/ \E p \in Procs : respond(p)

SpecWeightRace == Init /\ [][NextWeightRace]_vars

----------------------------------------------------------------------------
(* Vocabulary of the properties *)

Answered == pc = "done"

Succeeded == Answered /\ res.status = 200

InvalidInputAnswer ==
  /\ res.status = 400
  /\ res.success = FALSE
  /\ res.data = NoData

KnownLevels == {"sedentary", "light", "moderate", "active", "very-active"}

Positive(v) == IsNum(v) /\ v.n > 0

ValidBiometrics(body) ==
  /\ Positive(body.currentWeight)
  /\ Positive(body.height)
  /\ Positive(body.age)
  /\ body.gender # Absent
  /\ body.activityLevel \in KnownLevels

Supplied(v) == v.t # "undefined"

\* gender='male', currentWeight=180, height=70, age=30, activityLevel='moderate'
ExampleBiometrics(body) ==
  /\ body.currentWeight = IntNum(180)
  /\ body.height = IntNum(70)
  /\ body.age = IntNum(30)
  /\ body.gender = "male"
  /\ body.activityLevel = "moderate"

\* The integer nearest to n/d (d > 0), a tie going up.
Nearest(n, d) == (2 * n + d) \div (2 * d)

FloorFor(gender) == IF gender = "male" THEN 1500 ELSE 1200

----------------------------------------------------------------------------
(* C1: every request with valid biometrics, whatever its goal input, is
   answered with a recommendedCalories that is a number and is at least 1500
   for gender 'male' and at least 1200 otherwise. *)
C1_FloorAlwaysWins ==
  (Answered /\ ValidBiometrics(req)) =>
     /\ res.status = 200
     /\ IsNum(res.data.recommendedCalories)
     /\ res.data.recommendedCalories.d = 1
     /\ res.data.recommendedCalories.n >= FloorFor(req.gender)

(* C2: a request in which a required biometric field is missing, or in which
   currentWeight, height or age is not a number or is not positive, is
   answered 400 and no recommendation is computed. *)
C2_InvalidBiometricsRejected ==
  (/\ Answered
   /\ \/ ~Positive(req.currentWeight)
      \/ ~Positive(req.height)
      \/ ~Positive(req.age)
      \/ req.gender = Absent
      \/ req.activityLevel = Absent) => InvalidInputAnswer

(* C3: a request whose activityLevel is not one of the five known levels is
   answered with the invalid-input error, never with a success response. *)
C3_UnknownActivityRejected ==
  (Answered /\ req.activityLevel \notin KnownLevels) => InvalidInputAnswer

----------------------------------------------------------------------------
\* The activity multipliers in thousandths: 1.2, 1.375, 1.55, 1.725, 1.9.
Thousandths(level) ==
  CASE level = "sedentary" -> 1200
    [] level = "light" -> 1375
    [] level = "moderate" -> 1550
    [] level = "active" -> 1725
    [] level = "very-active" -> 1900

\* bmr = 10*weight + 6.25*height - 5*age + 5 for 'male' and ... - 161 otherwise:
\* four times the sum, over the common denominator of the three inputs.
BmrAsFormula ==
  LET w == req.currentWeight
      h == req.height
      a == req.age
      k == IF req.gender = "male" THEN 20 ELSE -644
      bmr == res.data.bmr
  IN  IF IsNum(w) /\ IsNum(h) /\ IsNum(a)
      THEN /\ IsNum(bmr)
           /\ bmr.n * (4 * w.d * h.d * a.d)
                = bmr.d * (40 * w.n * h.d * a.d + 25 * h.n * w.d * a.d
                           - 20 * a.n * w.d * h.d + k * w.d * h.d * a.d)
      ELSE bmr = Null

\* maintenanceCalories = round(bmr * multiplier)
MaintenanceAsFormula ==
  LET bmr == res.data.bmr
  IN  IF IsNum(bmr) /\ req.activityLevel \in KnownLevels
      THEN res.data.maintenanceCalories
             = IntNum(Nearest(bmr.n * Thousandths(req.activityLevel),
                              1000 * bmr.d))
      ELSE res.data.maintenanceCalories = Null

(* C4, as stated: the example biometrics (male, 180, 70, 30, moderate) give
   bmr = 1892.5 and maintenanceCalories = 2934, and in general bmr and
   maintenanceCalories follow the two formulas. *)
C4_ExampleAsStated ==
  Succeeded =>
     /\ BmrAsFormula
     /\ MaintenanceAsFormula
     /\ ExampleBiometrics(req) =>
          /\ res.data.bmr = Num(18925, 10)
          /\ res.data.maintenanceCalories = IntNum(2934)

(* C4, amended: bmr and maintenanceCalories follow the two formulas, which for
   the example biometrics give bmr = 2092.5 and maintenanceCalories = 3243. *)
C4_BmrAndMaintenance ==
  Succeeded =>
     /\ BmrAsFormula
     /\ MaintenanceAsFormula
     /\ ExampleBiometrics(req) =>
          /\ res.data.bmr = Num(20925, 10)
          /\ res.data.maintenanceCalories = IntNum(3243)

C4_Witness ==
  /\ Succeeded
  /\ ExampleBiometrics(req)
  /\ res.data.maintenanceCalories = IntNum(3243)

----------------------------------------------------------------------------
\* maintenance + round(w * 3500 / 7), NaN when w or maintenance is no number.
WeeklyRateAsFormula ==
  LET w == req.weeklyWeightChange
      m == locals.maintenanceCalories
  IN  IF IsNum(w) /\ IsNum(m)
      THEN IntNum(m.n + Nearest(3500 * w.n, 7 * w.d))
      ELSE NaN

ExampleWeeklyLoss ==
  /\ ExampleBiometrics(req)
  /\ req.weeklyWeightChange = IntNum(-1)

(* C5, as stated: whenever weeklyWeightChange w is given, the recommended
   calories before clamping are maintenanceCalories + round(w * 3500 / 7), and
   the example biometrics with w = -1 give recommendedCalories = 2434. *)
C5_WeeklyRateAsStated ==
  (Succeeded /\ Supplied(req.weeklyWeightChange)) =>
     /\ locals.adjustedCalories = WeeklyRateAsFormula
     /\ ExampleWeeklyLoss => res.data.recommendedCalories = IntNum(2434)

(* C5, amended: whenever weeklyWeightChange w is given and is not 0, the
   recommended calories before clamping are maintenanceCalories +
   round(w * 3500 / 7), and the example biometrics with w = -1 give
   recommendedCalories = 2743. *)
C5_WeeklyRate ==
  (Succeeded /\ Supplied(req.weeklyWeightChange)
             /\ req.weeklyWeightChange # IntNum(0)) =>
     /\ locals.adjustedCalories = WeeklyRateAsFormula
     /\ ExampleWeeklyLoss => res.data.recommendedCalories = IntNum(2743)

C5_Witness ==
  /\ Succeeded
  /\ ExampleWeeklyLoss
  /\ locals.adjustedCalories = IntNum(2743)

----------------------------------------------------------------------------
WithoutGoalPair(body) ==
  [body EXCEPT !.goalWeight = Undefined, !.targetDate = Undefined]

(* C6: whenever weeklyWeightChange is supplied, be it negative, zero or
   positive, the weekly-rate strategy is used: the target-date branch is not
   entered and the answer is the one the same request without goalWeight and
   targetDate gets. *)
C6_WeeklyChangeTakesPrecedence ==
  (Succeeded /\ Supplied(req.weeklyWeightChange)) =>
     /\ locals.daysUntilTarget = Undefined
     /\ res = successResponse(WithoutGoalPair(req), today)

----------------------------------------------------------------------------
\* max(1, round(diff / 1 day)) for a difference of diff milliseconds.
DaysAsFormula(diff) ==
  IF 2 * diff < 86400000 THEN 1 ELSE Nearest(diff, 86400000)

\* maintenance + round((goalWeight - currentWeight) * 3500 / days)
TargetDateAsFormula(days) ==
  LET g == req.goalWeight
      w == req.currentWeight
      m == locals.maintenanceCalories
  IN  IF IsNum(days) /\ IsNum(g) /\ IsNum(w) /\ IsNum(m)
      THEN IntNum(m.n + Nearest(3500 * (g.n * w.d - w.n * g.d),
                                days.n * g.d * w.d))
      ELSE NaN

(* C7: when goalWeight and targetDate are given and weeklyWeightChange is
   not, daysUntilTarget is max(1, round((targetDate - now) / 1 day)), which is
   exactly 1 for a target date today or in the past and never 0 or negative,
   and the recommended calories before clamping are maintenanceCalories +
   round((goalWeight - currentWeight) * 3500 / daysUntilTarget). *)
C7_TargetDateStrategy ==
  (/\ Succeeded
   /\ ~Supplied(req.weeklyWeightChange)
   /\ Supplied(req.goalWeight)
   /\ Supplied(req.targetDate)) =>
     LET days == locals.daysUntilTarget
     IN  /\ IF req.targetDate.t = "date"
            THEN /\ days = IntNum(DaysAsFormula(req.targetDate.n - today.n))
                 /\ days.n >= 1
                 /\ req.targetDate.n <= today.n => days = IntNum(1)
            ELSE days = NaN
         /\ locals.adjustedCalories = TargetDateAsFormula(days)

C7_Witness ==
  /\ Succeeded
  /\ ValidBiometrics(req)
  /\ ~Supplied(req.weeklyWeightChange)
  /\ Supplied(req.goalWeight)
  /\ req.targetDate.t = "date"
  /\ req.targetDate.n < today.n
  /\ locals.daysUntilTarget = IntNum(1)
  /\ locals.adjustedCalories # locals.maintenanceCalories

----------------------------------------------------------------------------
NoGoalSupplied(body) ==
  /\ ~Supplied(body.weeklyWeightChange)
  /\ ~(Supplied(body.goalWeight) /\ Supplied(body.targetDate))

(* C8, as stated: with neither weeklyWeightChange nor the pair (goalWeight,
   targetDate) supplied, recommendedCalories = maintenanceCalories for every
   valid biometric input. *)
C8_MaintenanceUnchangedAsStated ==
  (Succeeded /\ ValidBiometrics(req) /\ NoGoalSupplied(req)) =>
     res.data.recommendedCalories = res.data.maintenanceCalories

(* C8, amended: with neither supplied, for every valid biometric input the
   recommended calories before clamping are maintenanceCalories, and
   recommendedCalories is the larger of maintenanceCalories and the floor
   (1500 for 'male', 1200 otherwise). *)
C8_MaintenanceThenFloor ==
  (Succeeded /\ ValidBiometrics(req) /\ NoGoalSupplied(req)) =>
     LET m == res.data.maintenanceCalories
     IN  /\ IsNum(m)
         /\ locals.adjustedCalories = m
         /\ res.data.recommendedCalories
              = IF m.n < FloorFor(req.gender)
                THEN IntNum(FloorFor(req.gender))
                ELSE m

C8_Witness ==
  /\ Succeeded
  /\ ValidBiometrics(req)
  /\ NoGoalSupplied(req)
  /\ res.data.maintenanceCalories.n < FloorFor(req.gender)
  /\ res.data.recommendedCalories = IntNum(FloorFor(req.gender))

----------------------------------------------------------------------------
(* C9: the macronutrients are taken from the returned recommendedCalories:
   protein = round(0.30*cal/4), fat = round(0.25*cal/9) and
   carbs = round(0.45*cal/4) with cal the returned value, also when the floor
   replaced the computed value. *)
C9_MacrosFromFinalCalories ==
  Succeeded =>
     LET cal == res.data.recommendedCalories
     IN  IF IsNum(cal)
         THEN /\ res.data.protein = IntNum(Nearest(30 * cal.n, 400 * cal.d))
              /\ res.data.fat = IntNum(Nearest(25 * cal.n, 900 * cal.d))
              /\ res.data.carbs = IntNum(Nearest(45 * cal.n, 400 * cal.d))
         ELSE /\ res.data.protein = Null
              /\ res.data.fat = Null
              /\ res.data.carbs = Null

C9_Witness ==
  /\ Succeeded
  /\ ValidBiometrics(req)
  /\ IsNum(locals.adjustedCalories)
  /\ locals.adjustedCalories.n < FloorFor(req.gender)
  /\ locals.adjustedCalories # locals.maintenanceCalories
  /\ res.data.recommendedCalories = IntNum(FloorFor(req.gender))
  /\ res.data.protein = IntNum(Nearest(30 * FloorFor(req.gender), 400))

----------------------------------------------------------------------------
(* C10: in every successful answer protein*4 + carbs*4 + fat*9 differs from
   recommendedCalories by at most 9 kcal. *)
C10_MacroCaloriesWithinTolerance ==
  Succeeded =>
     LET d == res.data
     IN  /\ IsNum(d.recommendedCalories)
         /\ IsNum(d.protein) /\ IsNum(d.carbs) /\ IsNum(d.fat)
         /\ Abs(4 * d.protein.n + 4 * d.carbs.n + 9 * d.fat.n
                - d.recommendedCalories.n) <= 9

----------------------------------------------------------------------------
NotMale == Genders \ {Absent, "male"}

\* The answer to the request in flight had its gender been g.
AnswerWithGender(g) ==
  LET body == [req EXCEPT !.gender = g]
  IN  IF missingRequired(body)
      THEN errorHandler(
             ErrorResponse("Please provide all required fields", 400))
      ELSE successResponse(body, today)

(* C11: two requests that differ only in gender, both genders other than
   'male', are answered with the same bmr, maintenanceCalories,
   recommendedCalories and macronutrients. *)
C11_OnlyMaleMatters ==
  (Answered /\ req.gender \in NotMale) =>
     \A g \in NotMale : AnswerWithGender(g) = res

C11_Witness ==
  /\ Succeeded
  /\ ValidBiometrics(req)
  /\ req.gender = "prefer-not-to-say"
  /\ res.data.recommendedCalories = IntNum(1200)
  /\ AnswerWithGender("female") = res
  /\ AnswerWithGender("male") # res

----------------------------------------------------------------------------
\* A remembered call of calculateCalories had the body and the instant of the
\* last one.
SameRequestAgain ==
  /\ memo.res # NoResponse
  /\ res # NoResponse
  /\ memo.req = req
  /\ memo.today = today

\* A remembered call of analyzeTextForCalories had the text of the last one.
SameTextAgain ==
  /\ memo.estPath # "none"
  /\ estPath # "none"
  /\ memo.text = mealText

(* C12: a call of calculateCalories with the body and the instant of an
   earlier call answers as the earlier call did, and a call of
   analyzeTextForCalories with the text of an earlier call returns what the
   earlier call returned, whatever calls came before or in between. *)
C12_ReferentiallyTransparent ==
  /\ SameRequestAgain => memo.res = res
  /\ SameTextAgain => memo.est = est

\* Both functions are called again with the inputs of remembered calls, other
\* calls having come in between, and the instant mattered to the answer.
C12_Witness ==
  /\ pc = "done"
  /\ memo.since >= 1
  /\ SameRequestAgain
  /\ SameTextAgain
  /\ mealText = <<"2", " ", "a", "p", "p", "l", "e", "s", " ", "f", "o", "r", " ", "b", "r", "e", "a", "k", "f", "a", "s", "t">>
  /\ est.calories = IntNum(190)
  /\ res.status = 200
  /\ Supplied(req.targetDate)
  /\ ~Supplied(req.weeklyWeightChange)
  /\ today = IntNum(24 * 60 * 60 * 1000)
  /\ successResponse(req, IntNum(0)) # res

----------------------------------------------------------------------------
(* Vocabulary of the estimator's properties *)

Estimated == pc = "done" /\ estPath # "none"

\* pattern occurs in str: at some place every character of pattern stands.
Occurs(pattern, str) ==
  \E i \in 1 .. (Len(str) + 1) :
     \A j \in 1 .. Len(pattern) :
        /\ i + j - 1 <= Len(str)
        /\ str[i + j - 1] = pattern[j]

\* The table keywords that occur in the lower-cased text.
MatchedKeywords ==
  UNION {{k \in 1 .. Len(foodDatabase) : Occurs(foodDatabase[k].food, str)} :
           str \in {toLowerCase(mealText)}}

\* Sum over the keywords of S, each once, of per-unit value times quantity.
RECURSIVE KeywordSum(_, _)
KeywordSum(S, field) ==
  IF S = {} THEN IntNum(0)
  ELSE LET k == CHOOSE x \in S : TRUE
       IN  Add(Mul(foodDatabase[k][field],
                   quantityOf(toLowerCase(mealText), foodDatabase[k].food)),
               KeywordSum(S \ {k}, field))

\* The estimate is the rounded sum over the keywords of S.
IsRoundedSumOver(S) ==
  /\ est.calories = MathRound(KeywordSum(S, "calories"))
  /\ est.protein = MathRound(KeywordSum(S, "protein"))
  /\ est.carbs = MathRound(KeywordSum(S, "carbs"))
  /\ est.fat = MathRound(KeywordSum(S, "fat"))

\* The meal-type words in the order they are looked for, with their averages.
MealWords ==
  <<[word |-> <<"b", "r", "e", "a", "k", "f", "a", "s", "t">>, average |-> 400],
    [word |-> <<"l", "u", "n", "c", "h">>, average |-> 600],
    [word |-> <<"d", "i", "n", "n", "e", "r">>, average |-> 700],
    [word |-> <<"s", "n", "a", "c", "k">>, average |-> 200]>>

MealWordsFound ==
  UNION {{i \in 1 .. Len(MealWords) : Occurs(MealWords[i].word, str)} :
           str \in {toLowerCase(mealText)}}

IsDefaultEstimate ==
  /\ est.calories = IntNum(350)
  /\ est.protein = IntNum(15)
  /\ est.carbs = IntNum(35)
  /\ est.fat = IntNum(12)

TwoApplesForBreakfast == <<"2", " ", "a", "p", "p", "l", "e", "s", " ", "f", "o", "r", " ", "b", "r", "e", "a", "k", "f", "a", "s", "t">>

----------------------------------------------------------------------------
(* C13: whenever a food keyword of the table occurs in the lower-cased text,
   the estimate is the rounded keyword sum, also when a meal-type word occurs
   in the text; "2 apples for breakfast" is estimated at 190 calories. *)
C13_KeywordTierFirst ==
  (Estimated /\ MatchedKeywords # {}) =>
     /\ estPath = "keywords"
     /\ IsRoundedSumOver(MatchedKeywords)
     /\ mealText = TwoApplesForBreakfast => est.calories = IntNum(190)

C13_Witness ==
  /\ Estimated
  /\ mealText = TwoApplesForBreakfast
  /\ MatchedKeywords # {}
  /\ MealWordsFound # {}
  /\ estPath = "keywords"
  /\ est.calories = IntNum(190)
  /\ est.protein = IntNum(1)
  /\ est.carbs = IntNum(50)
  /\ est.fat = IntNum(1)
  /\ ~IsDefaultEstimate

----------------------------------------------------------------------------
\* The first meal-type word, in the order breakfast, lunch, dinner, snack,
\* that occurs in the text.
FirstMealWord ==
  MealWords[CHOOSE i \in MealWordsFound : \A j \in MealWordsFound : i <= j]

JustHadLunch == <<"j", "u", "s", "t", " ", "h", "a", "d", " ", "l", "u", "n", "c", "h">>

(* C14: when no food keyword occurs in the text but a meal-type word does,
   the estimate is the average A of the first meal type, in the order
   breakfast 400, lunch 600, dinner 700, snack 200, that occurs, with protein
   round(A*0.25/4), carbs round(A*0.5/4) and fat round(A*0.25/9); "just had
   lunch" gives 600, 38, 75, 17. *)
C14_MealTypeAverage ==
  (Estimated /\ MatchedKeywords = {} /\ MealWordsFound # {}) =>
     LET A == FirstMealWord.average
     IN  /\ estPath = "mealType"
         /\ est.calories = IntNum(A)
         /\ est.protein = IntNum(Nearest(A * 25, 400))
         /\ est.carbs = IntNum(Nearest(A * 5, 40))
         /\ est.fat = IntNum(Nearest(A * 25, 900))
         /\ est.description = mealText
         /\ mealText = JustHadLunch =>
               /\ est.calories = IntNum(600)
               /\ est.protein = IntNum(38)
               /\ est.carbs = IntNum(75)
               /\ est.fat = IntNum(17)

C14_Witness ==
  /\ Estimated
  /\ mealText = JustHadLunch
  /\ MatchedKeywords = {}
  /\ MealWordsFound = {2}
  /\ estPath = "mealType"
  /\ est.calories = IntNum(600)
  /\ est.protein = IntNum(38)
  /\ est.carbs = IntNum(75)
  /\ est.fat = IntNum(17)

\* Two meal-type words in one text: the earlier of the table counts.
C14_WitnessTwoWords ==
  /\ Estimated
  /\ MatchedKeywords = {}
  /\ Cardinality(MealWordsFound) = 2
  /\ est.calories = IntNum(FirstMealWord.average)

----------------------------------------------------------------------------
XyzzyPlugh == <<"x", "y", "z", "z", "y", " ", "p", "l", "u", "g", "h">>

(* C15: when the text contains neither a food keyword nor a meal-type word,
   the estimate is exactly calories 350, protein 15, carbs 35, fat 12. *)
C15_GlobalDefault ==
  (Estimated /\ MatchedKeywords = {} /\ MealWordsFound = {}) =>
     /\ estPath = "default"
     /\ IsDefaultEstimate
     /\ est.description = mealText

C15_Witness ==
  /\ Estimated
  /\ mealText = XyzzyPlugh
  /\ MatchedKeywords = {}
  /\ MealWordsFound = {}
  /\ estPath = "default"
  /\ IsDefaultEstimate

----------------------------------------------------------------------------
\* The multiplier of a keyword as stated: taken from the token before the
\* first token that contains the keyword.
StatedMultiplier(food) ==
  LET words == split(toLowerCase(mealText))
      holding == {i \in 1 .. Len(words) : Occurs(food, words[i])}
      first == CHOOSE i \in holding : \A j \in holding : i <= j
  IN  IF holding = {} \/ first = 1 THEN IntNum(1)
      ELSE LET token == words[first - 1]
           IN  IF IsDecimalLiteral(token) THEN DecimalValue(token)
               ELSE IF token \in {<<"h", "a", "l", "f">>, <<"a", "-", "h", "a", "l", "f">>}
               THEN Num(1, 2)
               ELSE IF token = <<"q", "u", "a", "r", "t", "e", "r">> THEN Num(1, 4)
               ELSE IF token \in {<<"d", "o", "u", "b", "l", "e">>, <<"t", "w", "o">>}
               THEN IntNum(2)
               ELSE IF token \in {<<"t", "r", "i", "p", "l", "e">>, <<"t", "h", "r", "e", "e">>}
               THEN IntNum(3)
               ELSE IntNum(1)

RECURSIVE StatedSum(_, _)
StatedSum(S, field) ==
  IF S = {} THEN IntNum(0)
  ELSE LET k == CHOOSE x \in S : TRUE
       IN  Add(Mul(foodDatabase[k][field], StatedMultiplier(foodDatabase[k].food)),
               StatedSum(S \ {k}, field))

(* C16: each matched keyword adds its per-unit values times a multiplier taken
   from the token before the token that contains the keyword: a numeric
   literal n gives n, half or a-half 0.5, quarter 0.25, double or two 2,
   triple or three 3, any other token or no preceding token 1. *)
C16_MultiplierFromPrecedingToken ==
  (Estimated /\ MatchedKeywords # {}) =>
     /\ est.calories = MathRound(StatedSum(MatchedKeywords, "calories"))
     /\ est.protein = MathRound(StatedSum(MatchedKeywords, "protein"))
     /\ est.carbs = MathRound(StatedSum(MatchedKeywords, "carbs"))
     /\ est.fat = MathRound(StatedSum(MatchedKeywords, "fat"))

----------------------------------------------------------------------------
IsInteger(v) == IsNum(v) /\ v.d = 1

(* C17: for every non-empty text, texts with leading, trailing or repeated
   spaces among them, analyzeTextForCalories resolves with an estimate whose
   calories, protein, carbs and fat are integers and whose description is the
   text. *)
C17_AlwaysIntegerEstimate ==
  (pc = "done" /\ mealText # <<>>) =>
     /\ estPath # "none"
     /\ IsInteger(est.calories)
     /\ IsInteger(est.protein)
     /\ IsInteger(est.carbs)
     /\ IsInteger(est.fat)
     /\ est.description = mealText

----------------------------------------------------------------------------
\* The table keywords that lie inside the keyword k.
InnerKeywords(k) ==
  {l \in 1 .. Len(foodDatabase) :
     l # k /\ Occurs(foodDatabase[l].food, foodDatabase[k].food)}

\* The places of the text where the keyword k begins.
Occurrences(k) ==
  LET str == toLowerCase(mealText)
      food == foodDatabase[k].food
  IN  {i \in 1 .. Len(str) :
         /\ i + Len(food) - 1 <= Len(str)
         /\ SubSeq(str, i, i + Len(food) - 1) = food}

ButterPeanutButter == <<"b", "u", "t", "t", "e", "r", " ", "p", "e", "a", "n", "u", "t", " ", "b", "u", "t", "t", "e", "r">>

(* C18: keywords are matched by substring, each table keyword counting once
   however often it occurs, and a table keyword that lies inside another
   matched keyword or word counts beside it: the estimate is the rounded sum
   over the set of the table keywords that occur in the text. *)
C18_EachKeywordOnceOverlapsCount ==
  Estimated =>
    \A S \in {MatchedKeywords} :
      S # {} =>
        /\ \A k \in S : InnerKeywords(k) \subseteq S
        /\ IsRoundedSumOver(S)

\* 'butter' occurs twice, once of them inside 'peanut butter': 188 + 102.
C18_Witness ==
  /\ Estimated
  /\ mealText = ButterPeanutButter
  /\ \E k \in MatchedKeywords :
        /\ InnerKeywords(k) # {}
        /\ \E l \in InnerKeywords(k) : Cardinality(Occurrences(l)) = 2
  /\ Cardinality(MatchedKeywords) = 2
  /\ est.calories = IntNum(290)

----------------------------------------------------------------------------
\* The external integration has thrown in the call that has returned.
FellBack == Estimated /\ estPath = "fallback"

\* The estimate is the meal-type average A with its macronutrients.
IsMealTypeEstimate(A) ==
  /\ est.calories = IntNum(A)
  /\ est.protein = IntNum(Nearest(A * 25, 400))
  /\ est.carbs = IntNum(Nearest(A * 5, 40))
  /\ est.fat = IntNum(Nearest(A * 25, 900))

(* C19, as stated: when analyzeWithExternalAPI throws, analyzeTextForCalories
   does not propagate the error and returns the global default 350, 15, 35,
   12, for every string text. *)
C19_FallbackToDefaultAsStated ==
  FellBack => IsDefaultEstimate

(* C19, amended: when analyzeWithExternalAPI throws, analyzeTextForCalories
   does not propagate the error and returns the rough estimate by meal type,
   whatever food keywords the text holds: the average of the first meal type
   that occurs in the text with its macronutrients, and the global default
   350, 15, 35, 12 when no meal-type word occurs. *)
C19_FallbackToRoughEstimate ==
  FellBack =>
     /\ est.description = mealText
     /\ IF MealWordsFound # {}
        THEN IsMealTypeEstimate(FirstMealWord.average)
        ELSE IsDefaultEstimate

\* The fallback passes the keyword of the text over and answers by 'breakfast'.
C19_Witness ==
  /\ FellBack
  /\ apiKey
  /\ mealText = TwoApplesForBreakfast
  /\ MatchedKeywords # {}
  /\ est.calories = IntNum(400)
  /\ est.protein = IntNum(25)
  /\ ~IsDefaultEstimate

----------------------------------------------------------------------------
\* What the call that has returned would have returned from the other
\* backend: without NUTRITION_API_KEY if it was set, with it if it was not.
OtherBackendEstimate == analyzeTextForCalories(mealText, ~apiKey, FALSE).value

(* C20: for every text the call with NUTRITION_API_KEY set and the call
   without it return a record with the same fields calories, protein, carbs,
   fat and description and the same values. *)
C20_BackendsAgree ==
  Estimated =>
     /\ DOMAIN est = DOMAIN OtherBackendEstimate
     /\ est = OtherBackendEstimate

C20_Witness ==
  /\ Estimated
  /\ apiKey
  /\ mealText = TwoApplesForBreakfast
  /\ est.calories = IntNum(190)
  /\ est.description = mealText
  /\ OtherBackendEstimate = analyzeWithSimpleAlgorithm(mealText)
  /\ est = OtherBackendEstimate

----------------------------------------------------------------------------
\* The keyword k is written in several words.
IsMultiWord(k) == \E i \in 1 .. Len(foodDatabase[k].food) : foodDatabase[k].food[i] = " "

\* Sum over the keywords of S in which a keyword of several words counts once
\* and a keyword of one word by its quantity.
RECURSIVE MultiWordOnceSum(_, _)
MultiWordOnceSum(S, field) ==
  IF S = {} THEN IntNum(0)
  ELSE LET k == CHOOSE x \in S : TRUE
           food == foodDatabase[k].food
           multiplier == IF IsMultiWord(k) THEN IntNum(1)
                         ELSE quantityOf(toLowerCase(mealText), food)
       IN  Add(Mul(foodDatabase[k][field], multiplier),
               MultiWordOnceSum(S \ {k}, field))

TwoChickenBreast == <<"2", " ", "c", "h", "i", "c", "k", "e", "n", " ", "b", "r", "e", "a", "s", "t">>

(* C29: a food keyword of several words ('chicken breast', 'ice cream',
   'peanut butter', 'olive oil') has the multiplier 1 whatever token precedes
   it: "2 chicken breast" adds the values of 'chicken breast' once. *)
C29_MultiWordKeywordCountsOnce ==
  Estimated =>
    \A S \in {MatchedKeywords} :
      S # {} =>
        /\ est.calories = MathRound(MultiWordOnceSum(S, "calories"))
        /\ est.protein = MathRound(MultiWordOnceSum(S, "protein"))
        /\ est.carbs = MathRound(MultiWordOnceSum(S, "carbs"))
        /\ est.fat = MathRound(MultiWordOnceSum(S, "fat"))
        /\ mealText = TwoChickenBreast => est.calories = IntNum(165)

C29_Witness ==
  /\ Estimated
  /\ mealText = TwoChickenBreast
  /\ \E k \in MatchedKeywords : IsMultiWord(k)
  /\ Cardinality(MatchedKeywords) = 1
  /\ est.calories = IntNum(165)
  /\ est.protein = IntNum(31)

----------------------------------------------------------------------------
IsNegative(v) == IsNum(v) /\ v.n < 0

(* C30: for every non-empty text none of calories, protein, carbs and fat of
   the estimate is below 0, whatever numeric token precedes a matched
   keyword. *)
C30_NeverNegative ==
  (Estimated /\ mealText # <<>>) =>
     /\ ~IsNegative(est.calories)
     /\ ~IsNegative(est.protein)
     /\ ~IsNegative(est.carbs)
     /\ ~IsNegative(est.fat)

----------------------------------------------------------------------------
\* A text that is absent or the empty string.
EmptyOrMissing(v) == v.kind = "absent" \/ v = StringText(<<>>)

(* C21: analyzeMealText answers 400 'Please provide meal text to analyze'
   without calling analyzeTextForCalories when text is absent or the empty
   string; createMeal calls analyzeTextForCalories only when entryMethod is
   'text' and originalText is not empty; no absent or empty text reaches the
   estimator. *)
C21_EmptyTextStopsAtCaller ==
  /\ (handler = "analyzeMealText" /\ EmptyOrMissing(hreq.body.text)) =>
        /\ analyzed = <<>>
        /\ hres.status = 400
        /\ hres.error = "Please provide meal text to analyze"
  /\ (handler = "createMeal" /\ analyzed # <<>>) =>
        /\ hreq.body.entryMethod = "text"
        /\ ~EmptyOrMissing(hreq.body.originalText)
        /\ analyzed = <<hreq.body.originalText>>
  /\ \A i \in 1 .. Len(analyzed) : ~EmptyOrMissing(analyzed[i])

C21_Witness ==
  /\ handler = "analyzeMealText"
  /\ hreq.body.text = StringText(<<>>)
  /\ analyzed = <<>>
  /\ hres.status = 400
  /\ hres.error = "Please provide meal text to analyze"

\* createMeal with a text hands it to the estimator and stores its calories.
C21_WitnessCreateMeal ==
  /\ handler = "createMeal"
  /\ hreq.body.entryMethod = "text"
  /\ Len(analyzed) = 1
  /\ analyzed[1].kind = "string"
  /\ hres.status = 201
  /\ hres.data.value = IntNum(190)

----------------------------------------------------------------------------
(* Documents and their owners *)

\* The weight entries of the user u on the calendar day.
EntriesOn(u, day) ==
  {i \in DocIds :
     /\ docs["weights"][i] # NoDoc
     /\ docs["weights"][i].user = u
     /\ docs["weights"][i].day = day}

(* C23: after any series of createWeightEntry, updateWeightEntry and
   deleteWeightEntry requests, each answered before the next, a user has at
   most one weight entry per calendar day. *)
C23_OneEntryPerDaySequential ==
  \A u \in Users, day \in Days : Cardinality(EntriesOn(u, day)) <= 1

(* C22: whatever the interleaving of concurrent createWeightEntry requests
   of one user for one calendar day, no state holds two weight entries of
   that user on that day. *)
C22_OneEntryPerDayConcurrent ==
  \A p, q \in Procs :
    (p # q /\ inflight[p].user = inflight[q].user
           /\ inflight[p].day = inflight[q].day /\ inflight[p].day # 0) =>
      Cardinality(EntriesOn(inflight[p].user, inflight[p].day)) <= 1

\* The handlers that look the document up and compare its user.
OwnerChecked ==
  {"getMeal", "updateMeal", "deleteMeal", "updateGoal", "deleteGoal",
   "getWeightEntry", "updateWeightEntry", "deleteWeightEntry"}

(* C24: a get, update or delete of a meal, goal or weight entry by a user
   other than the one in the document's user field is answered 401, leaves
   the documents as they are and carries none of the document's data; the
   same request for an id without a document is answered 404. *)
C24_OwnershipCheck ==
  [][(handler' \in OwnerChecked /\ hreq'.id \in DocIds) =>
       LET target == docs[hreq'.collection][hreq'.id]
       IN  /\ target = NoDoc =>
                hres'.status = 404 /\ docs' = docs /\ hres'.data = NoDoc
           /\ (target # NoDoc /\ target.user # hreq'.user) =>
                hres'.status = 401 /\ docs' = docs /\ hres'.data = NoDoc]_vars

C24_Witness ==
  /\ handler = "updateWeightEntry"
  /\ hreq.id \in DocIds
  /\ docs["weights"][hreq.id] # NoDoc
  /\ docs["weights"][hreq.id].user # hreq.user
  /\ hres.status = 401
  /\ hres.data = NoDoc

C24_WitnessMissing ==
  /\ handler = "deleteGoal"
  /\ hreq.id \in DocIds
  /\ docs["goals"][hreq.id] = NoDoc
  /\ hres.status = 404
  /\ Stored # {}

(* C25: the user field of every stored meal, goal and weight entry is the
   user who created it. *)
C25_OwnerNeverChanges ==
  \A c \in Collections, i \in DocIds :
    docs[c][i] # NoDoc => docs[c][i].user = docs[c][i].createdBy

(* C26: a createWeightEntry request that stores an entry is answered 201
   with the entry; if the entry is the user's first, the profile weight
   becomes the entry's weight, and otherwise the profile stays as it is. *)
C26_FirstEntrySetsProfile ==
  [][(handler' = "createWeightEntry" /\ docs' # docs) =>
       /\ hres'.status = 201
       /\ IF countDocuments(docs'["weights"], hreq'.user) = 1
          THEN profile'[hreq'.user] = hres'.data.value
          ELSE profile' = profile]_vars

----------------------------------------------------------------------------
(* Who passes protect *)

\* The tokens a request presents: the pieces after the scheme of a Bearer
\* authorization header, and the token cookie.
PresentedTokens ==
  (IF gate.authorization.kind = "string"
      /\ startsWith(gate.authorization.chars, Bearer)
   THEN {split(gate.authorization.chars)[i] :
           i \in 2 .. Len(split(gate.authorization.chars))}
   ELSE {})
    \cup (IF gate.cookies.parsed /\ gate.cookies.token.kind = "string"
          THEN {gate.cookies.token.chars}
          ELSE {})

\* A presented token verifies and names an existing user.
Authentic ==
  \E t \in PresentedTokens \ {<<>>} :
    t \in {TokenOfU1, TokenOfU2}

(* C27: protect calls next(), once, only for a request that presents in the
   Bearer authorization header or in the token cookie a token that verifies
   and names an existing user; any other request is answered 401 without a
   call of next(), and no handler runs for it. *)
C27_NoHandlerWithoutAuthentication ==
  /\ gate.nextCalls <= 1
  /\ gate.reached => gate.nextCalls = 1
  /\ gate.nextCalls = 1 => Authentic /\ gate.status = 0 /\ gate.user \in Users
  /\ (gate.at # "none" /\ ~Authentic) =>
       gate.at = "answered" /\ gate.status = 401 /\ gate.nextCalls = 0
         /\ ~gate.reached

\* A token of a deleted user in the cookie: refused.
C27_Witness ==
  /\ gate.at = "answered"
  /\ gate.authorization = NoText
  /\ gate.cookies.token = StringText(TokenOfDeleted)
  /\ gate.status = 401
  /\ gate.error = "User not found with this ID"
  /\ gate.nextCalls = 0

\* A valid token in the cookie, the header being of another scheme: passed.
C27_WitnessPassed ==
  /\ gate.at = "handled"
  /\ gate.cookies.token = StringText(TokenOfU2)
  /\ gate.authorization.kind = "string"
  /\ ~startsWith(gate.authorization.chars, Bearer)
  /\ gate.user = "u2"
  /\ gate.nextCalls = 1

----------------------------------------------------------------------------
(* The password of a saved user *)

\* The hook has run to its end or to its rejection, and the save has written.
SaveFinished == account.at \in {"end", "rejected"} /\ account.written

(* C28: when a user document is saved with an unmodified password, the
   stored password hash stays as it was and the hook calls next() exactly
   once. *)
C28_UnmodifiedPasswordKept ==
  (SaveFinished /\ ~account.wasModified) =>
     /\ account.stored = account.original
     /\ account.nextCalls = 1

====
